---------------------------- MODULE Spec2Model ----------------------------
(***************************************************************************)
(* A model of the Wintun data path (wintun.c): the two shared-memory rings,*)
(* the send path (TunSendNetBufferLists), the receive worker               *)
(* (TunProcessReceiveData), ring registration and teardown                 *)
(* (TunDispatchRegisterBuffers, TunDispatchUnregisterBuffers) and the      *)
(* control-path flag changes (TunPause, TunRestart, TunDispatchPnP) with   *)
(* the TransitionLock they use as a publication barrier.                   *)
(*                                                                         *)
(* Every thread of the driver is a process with a program counter; one     *)
(* action is one access to shared state (the context, a ring, a lock, an   *)
(* event) together with the local computation that follows it.             *)
(***************************************************************************)
EXTENDS Integers, Sequences, FiniteSets, TLC

(***************************************************************************)
(* Program constants.                                                      *)
(***************************************************************************)
\* sizeof(ULONG)
TUN_ALIGNMENT == 4
\* sizeof(TUN_PACKET): the ULONG Size member (Data[] is a flexible array).
SIZEOF_TUN_PACKET == 4
\* sizeof(TUN_RING): Head, Tail, Alertable (Data[] is a flexible array).
SIZEOF_TUN_RING == 12
TUN_MAX_IP_PACKET_SIZE == 65535
TUN_MIN_RING_CAPACITY == 131072
TUN_MAX_RING_CAPACITY == 67108864

(***************************************************************************)
(* Bounds of the model.                                                    *)
(***************************************************************************)
\* Send batches NDIS submits (on each sender thread).
MaxBatches == 1
\* Packets the client puts into a receive ring.
MaxClientPackets == 2
\* TunPause calls (each may be followed by a TunRestart).
MaxPauses == 1
\* IRP_MN_QUERY_REMOVE_DEVICE requests (each may be cancelled).
MaxRemoves == 1
\* TUN_IOCTL_REGISTER_RINGS calls per file object.
MaxRegisterCalls == 1
\* Iterations of the worker's spin loop before its tick budget runs out.
MaxSpin == 1
\* Aligned offsets sampled on each side of a ring's boundaries.
NearEdge == 2

(***************************************************************************)
(* 32-bit unsigned arithmetic and the ring macros.  A ULONG is held as its *)
(* two 16-bit halves <<high, low>>, so that every value up to MAXULONG and *)
(* every wrap-around modulo 2^32 is computed exactly.                      *)
(***************************************************************************)
Half == 256 * 256

\* The ULONG with value n, and the value of a ULONG below 2^31.
ULong(n) == <<(n \div Half) % Half, n % Half>>
Value(u) == u[1] * Half + u[2]

MAXULONG == <<Half - 1, Half - 1>>

\* a + b and a - b in a ULONG.
Add32(a, b) ==
    LET low == a[2] + b[2]
    IN  <<(a[1] + b[1] + low \div Half) % Half, low % Half>>
Sub32(a, b) ==
    LET borrow == IF a[2] < b[2] THEN 1 ELSE 0
    IN  <<(Half + a[1] - b[1] - borrow) % Half, (Half + a[2] - b[2]) % Half>>

\* a < b and a <= b on ULONGs.
Less32(a, b) == a[1] < b[1] \/ (a[1] = b[1] /\ a[2] < b[2])
LessEq32(a, b) == ~Less32(b, a)

RECURSIVE BitAnd(_, _)
BitAnd(a, b) ==
    IF a = 0 \/ b = 0 THEN 0
    ELSE (a % 2) * (b % 2) + 2 * BitAnd(a \div 2, b \div 2)

\* a & b and ~a on ULONGs.
And32(a, b) == <<BitAnd(a[1], b[1]), BitAnd(a[2], b[2])>>
Not32(a) == <<Half - 1 - a[1], Half - 1 - a[2]>>

RECURSIVE BitCount(_)
BitCount(n) == IF n = 0 THEN 0 ELSE (n % 2) + BitCount(n \div 2)

\* The ULONG argument is widened with zero bits.
PopulationCount64(u) == BitCount(u[1]) + BitCount(u[2])

TUN_ALIGN(Size) ==
    And32(Add32(Size, ULong(TUN_ALIGNMENT - 1)), Not32(ULong(TUN_ALIGNMENT - 1)))

TUN_MAX_PACKET_SIZE == TUN_ALIGN(ULong(SIZEOF_TUN_PACKET + TUN_MAX_IP_PACKET_SIZE))

\* The result is stored in a ULONG (Ctx->Device.*.Capacity).
TUN_RING_CAPACITY(Size) ==
    Sub32(Sub32(Size, ULong(SIZEOF_TUN_RING)),
          Sub32(TUN_MAX_PACKET_SIZE, ULong(TUN_ALIGNMENT)))

TUN_RING_WRAP(Val, Capacity) == And32(Val, Sub32(Capacity, ULong(1)))


(***************************************************************************)
(* Objects.  A file object f that issues TUN_IOCTL_REGISTER_RINGS names two *)
(* client regions and two client events; <<f, "Send">> and                  *)
(* <<f, "Receive">> stand for the region, the MDL allocated for it, its     *)
(* system mapping (the TUN_RING pointer) and its TailMoved event.           *)
(***************************************************************************)
FileObjects == {1, 2}
NULL_FILE == 0
NULL == <<0, "NULL">>
Rings == FileObjects \X {"Send", "Receive"}
Senders == {1, 2}

TUN_FLAGS_RUNNING == "RUNNING"
TUN_FLAGS_PRESENT == "PRESENT"
TUN_FLAGS_CONNECTED == "CONNECTED"

VARIABLES
    \* TUN_CTX
    Flags, TransitionLock, SendLock, Owner, Device, Statistics, LinkState,
    \* client memory, MDLs, events, the worker threads' handles
    ring, mdl, event, thandle,
    \* processes: file objects' IRPs, NDIS senders, receive workers,
    \* MiniportPause/Restart, PnP, the clients
    ctl, snd, wrk, pause, pnp, cli,
    \* history
    faults, crashed, received, completed, consumed, sendlog,
    \* inputs and results of the ring computations checked on their own
    probe

ctxVars == <<Flags, TransitionLock, SendLock, Owner, Device, Statistics,
             LinkState>>
objVars == <<ring, mdl, event, thandle>>
procVars == <<ctl, snd, wrk, pause, pnp, cli>>
histVars == <<faults, crashed, received, completed, consumed, sendlog>>
vars == <<ctxVars, objVars, procVars, histVars, probe>>

(***************************************************************************)
(* Ring memory at byte granularity.  Data holds the bytes of TUN_RING.Data *)
(* from the lowest offset written to the highest; bytes never written      *)
(* read 0.                                                                 *)
(***************************************************************************)
EmptyData == [At |-> 0, Bytes |-> <<>>]

ReadByte(Data, a) ==
    IF a - Data.At + 1 \in DOMAIN Data.Bytes
    THEN Data.Bytes[a - Data.At + 1] ELSE 0

Zeros(n) == [i \in 1 .. n |-> 0]

\* NdisMoveMemory(Data + a, Bytes, Len(Bytes)): the bytes below a, Bytes,
\* and the bytes from a + Len(Bytes) on.
WriteBytes(Data, a, Bytes) ==
    LET n == Len(Bytes)
        m == Len(Data.Bytes)
        from == Data.At
        below == IF a <= from THEN <<>>
                 ELSE IF a - from <= m THEN SubSeq(Data.Bytes, 1, a - from)
                 ELSE Data.Bytes \o Zeros(a - from - m)
        above == IF a + n >= from + m THEN <<>>
                 ELSE IF a + n >= from THEN SubSeq(Data.Bytes, a + n - from + 1, m)
                 ELSE Zeros(from - a - n) \o Data.Bytes
    IN  IF n = 0 THEN Data
        ELSE IF m = 0 THEN [At |-> a, Bytes |-> Bytes]
        ELSE [At |-> IF a < from THEN a ELSE from,
              Bytes |-> below \o Bytes \o above]

\* A variant of the store that puts the most significant byte first.
WriteULongBigEndian(Data, a, v) ==
    WriteBytes(Data, a, <<v[1] \div 256, v[1] % 256, v[2] \div 256, v[2] % 256>>)

\* A ULONG store, little endian (REG_DWORD_LITTLE_ENDIAN).
WriteULong(Data, a, v) ==
    WriteBytes(Data, a, <<v[2] % 256, v[2] \div 256, v[1] % 256, v[1] \div 256>>)

ReadULong(Data, a) ==
    <<ReadByte(Data, a + 2) + 256 * ReadByte(Data, a + 3),
      ReadByte(Data, a) + 256 * ReadByte(Data, a + 1)>>

ReadBytes(Data, a, n) ==
    IF n > 0 /\ a >= Data.At /\ a + n <= Data.At + Len(Data.Bytes)
    THEN SubSeq(Data.Bytes, a - Data.At + 1, a - Data.At + n)
    ELSE [i \in 1 .. n |-> ReadByte(Data, a + i - 1)]

\* Lines 260 and 396: the bytes of the ring a packet of PacketSize takes.
PacketFootprint(PacketSize) ==
    TUN_ALIGN(Add32(ULong(SIZEOF_TUN_PACKET), PacketSize))

\* Lines 277-283: Packet->Size and Packet->Data of the packet at RingTail.
StorePacketSize(Data, RingTail, PacketSize) ==
    WriteULong(Data, Value(RingTail), PacketSize)
StorePacketData(Data, RingTail, Bytes) ==
    WriteBytes(Data, Value(RingTail) + SIZEOF_TUN_PACKET, Bytes)

\* Lines 391-392 and 416: Packet->Size and the PacketSize bytes at
\* Packet->Data of the packet at RingHead.
LoadPacketSize(Data, RingHead) == ReadULong(Data, Value(RingHead))
LoadPacketData(Data, RingHead, PacketSize) ==
    ReadBytes(Data, Value(RingHead) + SIZEOF_TUN_PACKET, Value(PacketSize))

\* A variant of lines 284 and 448 that does not wrap the sum.
RingAdvanceUnwrapped(Offset, AlignedPacketSize, RingCapacity) ==
    Add32(Offset, AlignedPacketSize)

\* Lines 284 and 448: the offset after a packet, wrapped.
RingAdvance(Offset, AlignedPacketSize, RingCapacity) ==
    TUN_RING_WRAP(Add32(Offset, AlignedPacketSize), RingCapacity)

(***************************************************************************)
(* Packets of the model.  An IPv4 packet is 20 bytes whose first byte has  *)
(* the high nibble 4, an IPv6 packet 40 bytes with the high nibble 6; the  *)
(* second byte tells the packets of a run apart.                           *)
(***************************************************************************)
Ip4Packet(id) == [i \in 1 .. 20 |-> IF i = 1 THEN 69 ELSE IF i = 2 THEN id ELSE 0]
Ip6Packet(id) == [i \in 1 .. 40 |-> IF i = 1 THEN 96 ELSE IF i = 2 THEN id ELSE 0]
\* 20 bytes that are no IP packet (the high nibble of the first byte is 0).
NonIpPacket(id) == [i \in 1 .. 20 |-> IF i = 1 THEN 0 ELSE id]


(***************************************************************************)
(* Inputs.                                                                 *)
(***************************************************************************)
\* The smallest RingSize that registration accepts (capacity 0x20000).
ValidRingSize ==
    Add32(ULong(TUN_MIN_RING_CAPACITY + SIZEOF_TUN_RING),
          Sub32(TUN_MAX_PACKET_SIZE, ULong(TUN_ALIGNMENT)))
\* RingSize values a caller passes: a valid one, and one too small for the
\* ring header and slack, whose capacity wraps around.
RingSizeInputs == {ValidRingSize, ULong(0)}
\* Capacity of the region the client of file object f allocated.
ClientCapacity == TUN_RING_CAPACITY(ValidRingSize)

\* A NET_BUFFER: NET_BUFFER_DATA_LENGTH and the bytes it holds.
NetBuffer(Bytes) == [Length |-> ULong(Len(Bytes)), Data |-> Bytes]
OversizedNetBuffer == [Length |-> ULong(TUN_MAX_IP_PACKET_SIZE + 1), Data |-> <<>>]
\* The second byte of the packets of sender s's n-th call.
PacketId(s, n) == 10 * n + s
\* One NET_BUFFER_LIST of one NET_BUFFER.
OnePacketBatch(s, n) == << <<NetBuffer(Ip4Packet(PacketId(s, n)))>> >>
\* The NET_BUFFER_LISTs (each a list of NET_BUFFERs) that the n-th call of
\* sender s submits.
SendBatches(s, n) ==
    { OnePacketBatch(s, n),
      << <<NetBuffer(Ip4Packet(PacketId(s, n)))>>,
         <<NetBuffer(Ip6Packet(PacketId(s, n)))>> >>,
      << <<OversizedNetBuffer, NetBuffer(Ip4Packet(PacketId(s, n)))>> >> }
\* The packets the client of file object f writes to its receive ring:
\* the n-th is IPv4, IPv6, or not an IP packet.
ClientPackets(f, n) ==
    { Ip4Packet(10 * f + n), Ip6Packet(10 * f + n), NonIpPacket(n) }

(***************************************************************************)
(* Initial state: TunInitializeEx has returned (the context zeroed, then   *)
(* TUN_FLAGS_PRESENT set), the miniport is paused, the file objects are    *)
(* open and no rings are registered.                                       *)
(***************************************************************************)
NoSend == [Mdl |-> NULL, Ring |-> NULL, Capacity |-> ULong(0), TailMoved |-> NULL]
NoReceive == [Mdl |-> NULL, Ring |-> NULL, Capacity |-> ULong(0), TailMoved |-> NULL,
              Thread |-> NULL_FILE]
ZeroStatistics ==
    [ifHCInOctets |-> 0, ifHCInUcastOctets |-> 0, ifHCInUcastPkts |-> 0,
     ifInDiscards |-> 0, ifHCOutOctets |-> 0, ifHCOutUcastOctets |-> 0,
     ifHCOutUcastPkts |-> 0, ifOutDiscards |-> 0]
NewRing == [Head |-> ULong(0), Tail |-> ULong(0), Alertable |-> FALSE,
            Data |-> EmptyData]

IdleCtl == [pc |-> "idle", dir |-> "Send", Status |-> "NONE", calls |-> 0,
            open |-> TRUE, registered |-> FALSE, ThreadObject |-> NULL_FILE]
IdleSnd == [pc |-> "idle", batch |-> <<>>, i |-> 1, j |-> 1, status |-> <<>>,
            Flags |-> {}, Ring |-> NULL, RingCapacity |-> ULong(0),
            PacketSize |-> ULong(0), AlignedPacketSize |-> ULong(0),
            RingHead |-> ULong(0), RingTail |-> ULong(0),
            Status |-> "NONE", SentPacketsCount |-> 0, SentPacketsSize |-> 0,
            DiscardedPacketsCount |-> 0, batches |-> 0]
NoWrk == [pc |-> "none", Ring |-> NULL, RingCapacity |-> ULong(0), Flags |-> {},
          RingHead |-> ULong(0), RingTail |-> ULong(0), PacketSize |-> ULong(0),
          AlignedPacketSize |-> ULong(0), NblFlags |-> "NONE", Spin |-> 0, holds |-> 0,
          Object |-> NULL]

InitCtx ==
    /\ Flags = {TUN_FLAGS_PRESENT}
    /\ TransitionLock = [Shared |-> 0, Exclusive |-> FALSE]
    /\ SendLock = 0
    /\ Owner = NULL_FILE
    /\ Device = [Send |-> NoSend, Receive |-> NoReceive]
    /\ Statistics = ZeroStatistics
    /\ LinkState = "MediaConnectStateDisconnected"

InitObjects ==
    /\ ring = [k \in Rings |-> NewRing]
    /\ mdl = [k \in Rings |-> "none"]
    /\ \E auto \in BOOLEAN :
          event = [k \in Rings |-> [Refs |-> 0, Signaled |-> FALSE, Auto |-> auto]]
    /\ thandle = [f \in FileObjects |-> "none"]

InitProcs ==
    /\ ctl = [f \in FileObjects |-> IdleCtl]
    /\ snd = [s \in Senders |-> IdleSnd]
    /\ wrk = [f \in FileObjects |-> NoWrk]
    /\ pause = [pc |-> "paused", n |-> 0]
    /\ pnp = [pc |-> "present", n |-> 0]
    /\ cli = [f \in FileObjects |-> [pc |-> "idle", n |-> 0, written |-> <<>>]]

InitHist ==
    /\ faults = {}
    /\ crashed = FALSE
    /\ received = <<>>
    /\ completed = <<>>
    /\ consumed = <<>>
    /\ sendlog = <<>>

NoProbe == [kind |-> "none"]

Init == InitCtx /\ InitObjects /\ InitProcs /\ InitHist /\ probe = NoProbe

(***************************************************************************)
(* The TransitionLock (EX_SPIN_LOCK).  A shared acquisition waits while a  *)
(* writer holds or is acquiring the lock; an exclusive acquisition first   *)
(* claims the lock against other writers and new readers, then waits for   *)
(* the readers to drain.  Every exclusive acquisition of the driver is     *)
(* released at once, so the second step is the acquire/release pair.       *)
(***************************************************************************)
CanAcquireShared == ~TransitionLock.Exclusive
AcquiredShared == [TransitionLock EXCEPT !.Shared = @ + 1]
ReleasedShared == [TransitionLock EXCEPT !.Shared = @ - 1]
CanClaimExclusive == ~TransitionLock.Exclusive
ClaimedExclusive == [TransitionLock EXCEPT !.Exclusive = TRUE]
\* A variant in which the writer does not wait for the readers to leave.
CanAcquireExclusiveAtOnce == TransitionLock.Exclusive
CanAcquireExclusive == TransitionLock.Exclusive /\ TransitionLock.Shared = 0

ReleasedExclusive == [TransitionLock EXCEPT !.Exclusive = FALSE]

(***************************************************************************)
(* Kernel objects.  A use of an object that is not in the state the call   *)
(* needs is recorded in faults; what the machine does then is not defined: *)
(* it stops (a bugcheck) or goes on.                                       *)
(***************************************************************************)
Fault(kind, actor, obj) == <<kind, actor, obj>>

\* A store or load through the system mapping of MDL k.
MappingFaults(kind, actor, k) ==
    IF mdl[k] = "locked" THEN {} ELSE {Fault(kind, actor, k)}

MmUnlockPages(actor, m) ==
    IF mdl[m] = "locked"
    THEN /\ mdl' = [mdl EXCEPT ![m] = "unlocked"]
         /\ faults' = faults
    ELSE /\ mdl' = mdl
         /\ faults' = faults \cup {Fault("MmUnlockPages", actor, m)}

IoFreeMdl(actor, m) ==
    IF mdl[m] \in {"allocated", "unlocked"}
    THEN /\ mdl' = [mdl EXCEPT ![m] = "freed"]
         /\ faults' = faults
    ELSE /\ mdl' = mdl
         /\ faults' = faults \cup {Fault("IoFreeMdl", actor, m)}

ObDereferenceObject(actor, e) ==
    IF event[e].Refs > 0
    THEN /\ event' = [event EXCEPT ![e].Refs = @ - 1]
         /\ faults' = faults
    ELSE /\ event' = event
         /\ faults' = faults \cup {Fault("ObDereferenceObject", actor, e)}

KeSetEvent(actor, e) ==
    /\ event' = [event EXCEPT ![e].Signaled = TRUE]
    /\ faults' = IF event[e].Refs > 0 THEN faults
                 ELSE faults \cup {Fault("KeSetEvent", actor, e)}


\* A dereference of a NULL pointer of the context stops the machine.
NullDeref(actor) ==
    /\ crashed' = TRUE
    /\ faults' = faults \cup {Fault("NULL", actor, NULL)}

\* An invalid use of an object either stops the machine there or goes on
\* with the stale object; a stopped machine runs nothing (the guard
\* ~crashed of every action).
MayStop == IF faults' = faults THEN crashed' = crashed ELSE crashed' \in BOOLEAN

(***************************************************************************)
(* TunDispatchRegisterBuffers, one action per statement that touches the   *)
(* context, an object or the lock.  ctl[f] is the thread that runs file    *)
(* object f's IRPs; dir is the ring the statement is about.                *)
(***************************************************************************)
\* A variant that stores without comparing (InterlockedExchangePointer).
InterlockedExchangePointer(Target, Exchange, Comperand) == Exchange

InterlockedCompareExchangePointer(Target, Exchange, Comperand) ==
    IF Target = Comperand THEN Exchange ELSE Target

CtlGoto(f, pc, dir) == ctl' = [ctl EXCEPT ![f].pc = pc, ![f].dir = dir]
CtlFail(f, status, pc, dir) ==
    ctl' = [ctl EXCEPT ![f].pc = pc, ![f].dir = dir, ![f].Status = status]
CtlReturn(f, status, registered) ==
    ctl' = [ctl EXCEPT ![f].pc = "idle", ![f].dir = "Send", ![f].Status = status,
                       ![f].registered = registered]

\* Lines 483-488: the owner check and the input length check.
RegisterOwner(f) ==
    /\ ~crashed
    /\ ctl[f].pc = "idle" /\ ctl[f].open /\ ctl[f].calls < MaxRegisterCalls
    /\ Owner' = InterlockedCompareExchangePointer(Owner, f, NULL_FILE)
    /\ IF Owner # NULL_FILE
       THEN ctl' = [ctl EXCEPT ![f].Status = "STATUS_ALREADY_INITIALIZED",
                               ![f].calls = @ + 1]
       ELSE \E lengthOk \in BOOLEAN :
              ctl' = [ctl EXCEPT
                        ![f].calls = @ + 1,
                        ![f].dir = "Send",
                        ![f].Status = "STATUS_INVALID_PARAMETER",
                        ![f].pc = IF lengthOk THEN "RegCapacity"
                                  ELSE "cleanupResetOwner"]
    /\ UNCHANGED <<Flags, TransitionLock, SendLock, Device, Statistics, LinkState>>
    /\ UNCHANGED <<objVars, snd, wrk, pause, pnp, cli, histVars, probe>>

\* A variant of the geometry check that does not count the bits.
RingGeometryInRange(Capacity) ==
    /\ LessEq32(ULong(TUN_MIN_RING_CAPACITY), Capacity)
    /\ LessEq32(Capacity, ULong(TUN_MAX_RING_CAPACITY))

\* Lines 492-494 and 524-526: the ring geometry registration accepts.
RingGeometryValid(Capacity) ==
    /\ LessEq32(ULong(TUN_MIN_RING_CAPACITY), Capacity)
    /\ LessEq32(Capacity, ULong(TUN_MAX_RING_CAPACITY))
    /\ PopulationCount64(Capacity) = 1

\* Where a failure before the ring's event is referenced unwinds to.
FailBeforeEvent(dir) ==
    IF dir = "Send" THEN <<"cleanupResetOwner", "Send">>
    ELSE <<"cleanupUnlockPages", "Send">>

\* Lines 491-495 and 523-527, for the RingSize of the input buffer and
\* whether its TailMoved and Ring are given.
RegCapacityOf(f, RingSize, pointersGiven) ==
    /\ ~crashed
    /\ ctl[f].pc = "RegCapacity"
    /\ LET dir == ctl[f].dir
           Capacity == TUN_RING_CAPACITY(RingSize)
           to == FailBeforeEvent(dir)
       IN  /\ Device' = [Device EXCEPT ![dir].Capacity = Capacity]
           /\ IF RingGeometryValid(Capacity) /\ pointersGiven
              THEN CtlGoto(f, "RegEvent", dir)
              ELSE CtlFail(f, "STATUS_INVALID_PARAMETER", to[1], to[2])
    /\ UNCHANGED <<Flags, TransitionLock, SendLock, Owner, Statistics, LinkState>>
    /\ UNCHANGED <<objVars, snd, wrk, pause, pnp, cli, histVars, probe>>

RegCapacity(f) ==
    \E RingSize \in RingSizeInputs, pointersGiven \in BOOLEAN :
        RegCapacityOf(f, RingSize, pointersGiven)

\* Lines 497-505 and 529-537: ObReferenceObjectByHandle of TailMoved.
RegEvent(f) ==
    /\ ~crashed
    /\ ctl[f].pc = "RegEvent"
    /\ LET dir == ctl[f].dir
           to == FailBeforeEvent(dir)
       IN  \E ok \in BOOLEAN :
             IF ok
             THEN /\ Device' = [Device EXCEPT ![dir].TailMoved = <<f, dir>>]
                  /\ event' = [event EXCEPT ![<<f, dir>>].Refs = @ + 1]
                  /\ CtlGoto(f, "RegMdl", dir)
             ELSE /\ Device' = [Device EXCEPT ![dir].TailMoved = NULL]
                  /\ event' = event
                  /\ CtlFail(f, "STATUS_INVALID_HANDLE", to[1], to[2])
    /\ UNCHANGED <<Flags, TransitionLock, SendLock, Owner, Statistics, LinkState>>
    /\ UNCHANGED <<ring, mdl, thandle, snd, wrk, pause, pnp, cli, histVars, probe>>

\* Lines 507-509 and 539-541: IoAllocateMdl.
RegMdl(f) ==
    /\ ~crashed
    /\ ctl[f].pc = "RegMdl"
    /\ LET dir == ctl[f].dir
       IN  \E ok \in BOOLEAN :
             IF ok
             THEN /\ Device' = [Device EXCEPT ![dir].Mdl = <<f, dir>>]
                  /\ mdl' = [mdl EXCEPT ![<<f, dir>>] = "allocated"]
                  /\ CtlGoto(f, "RegLock", dir)
             ELSE /\ Device' = [Device EXCEPT ![dir].Mdl = NULL]
                  /\ mdl' = mdl
                  /\ CtlFail(f, "STATUS_INSUFFICIENT_RESOURCES", "cleanupTailMoved", dir)
    /\ UNCHANGED <<Flags, TransitionLock, SendLock, Owner, Statistics, LinkState>>
    /\ UNCHANGED <<ring, event, thandle, snd, wrk, pause, pnp, cli, histVars, probe>>

\* Lines 510-515 and 542-547: MmProbeAndLockPages.
RegLock(f) ==
    /\ ~crashed
    /\ ctl[f].pc = "RegLock"
    /\ LET dir == ctl[f].dir
       IN  \E ok \in BOOLEAN :
             IF ok
             THEN /\ mdl' = [mdl EXCEPT ![Device[dir].Mdl] = "locked"]
                  /\ CtlGoto(f, "RegMap", dir)
             ELSE /\ mdl' = mdl
                  /\ CtlFail(f, "STATUS_INVALID_USER_BUFFER", "cleanupMdl", dir)
    /\ UNCHANGED <<ctxVars, ring, event, thandle, snd, wrk, pause, pnp, cli,
                   histVars, probe>>

\* Lines 517-520 and 549-552: MmGetSystemAddressForMdlSafe.
RegMap(f) ==
    /\ ~crashed
    /\ ctl[f].pc = "RegMap"
    /\ LET dir == ctl[f].dir
       IN  \E ok \in BOOLEAN :
             IF ok
             THEN /\ Device' = [Device EXCEPT ![dir].Ring = Device[dir].Mdl]
                  /\ IF dir = "Send" THEN CtlGoto(f, "RegCapacity", "Receive")
                     ELSE CtlGoto(f, "RegConnected", "Receive")
             ELSE /\ Device' = [Device EXCEPT ![dir].Ring = NULL]
                  /\ CtlFail(f, "STATUS_INSUFFICIENT_RESOURCES", "cleanupUnlockPages", dir)
    /\ UNCHANGED <<Flags, TransitionLock, SendLock, Owner, Statistics, LinkState>>
    /\ UNCHANGED <<objVars, snd, wrk, pause, pnp, cli, histVars, probe>>

\* Line 554.
RegConnected(f) ==
    /\ ~crashed
    /\ ctl[f].pc = "RegConnected"
    /\ Flags' = Flags \cup {TUN_FLAGS_CONNECTED}
    /\ CtlGoto(f, "RegThread", "Receive")
    /\ UNCHANGED <<TransitionLock, SendLock, Owner, Device, Statistics, LinkState>>
    /\ UNCHANGED <<objVars, snd, wrk, pause, pnp, cli, histVars, probe>>

\* Lines 556-562: PsCreateSystemThread starts TunProcessReceiveData.
RegThread(f) ==
    /\ ~crashed
    /\ ctl[f].pc = "RegThread"
    /\ \E ok \in BOOLEAN :
         IF ok
         THEN /\ Device' = [Device EXCEPT !.Receive.Thread = f]
              /\ thandle' = [thandle EXCEPT ![f] = "open"]
              /\ wrk' = [wrk EXCEPT ![f] = [NoWrk EXCEPT !.pc = "start"]]
              /\ CtlGoto(f, "RegLinkUp", "Receive")
         ELSE /\ UNCHANGED <<Device, thandle, wrk>>
              /\ CtlFail(f, "NDIS_STATUS_FAILURE", "cleanupFlagsConnected", "Receive")
    /\ UNCHANGED <<Flags, TransitionLock, SendLock, Owner, Statistics, LinkState>>
    /\ UNCHANGED <<ring, mdl, event, snd, pause, pnp, cli, histVars, probe>>

\* Lines 564-565.
RegLinkUp(f) ==
    /\ ~crashed
    /\ ctl[f].pc = "RegLinkUp"
    /\ LinkState' = "MediaConnectStateConnected"
    /\ CtlReturn(f, "STATUS_SUCCESS", TRUE)
    /\ UNCHANGED <<Flags, TransitionLock, SendLock, Owner, Device, Statistics>>
    /\ UNCHANGED <<objVars, snd, wrk, pause, pnp, cli, histVars, probe>>


(***************************************************************************)
(* The release of one resource of ring dir, as the cleanup labels of       *)
(* TunDispatchRegisterBuffers and the tail of TunDispatchUnregisterBuffers *)
(* do it: each reads the pointer from the context at that moment.          *)
(***************************************************************************)
ReleaseOp(actor, op, dir) ==
    LET p == IF op = "TailMoved" THEN Device[dir].TailMoved ELSE Device[dir].Mdl
    IN  IF p = NULL
        THEN NullDeref(actor) /\ UNCHANGED <<mdl, event>>
        ELSE
             /\ CASE op = "UnlockPages" -> MmUnlockPages(actor, p) /\ event' = event
                  [] op = "Mdl" -> IoFreeMdl(actor, p) /\ event' = event
                  [] op = "TailMoved" -> ObDereferenceObject(actor, p) /\ mdl' = mdl

\* Line 568.
CleanupFlagsConnected(f) ==
    /\ ~crashed
    /\ ctl[f].pc = "cleanupFlagsConnected"
    /\ Flags' = Flags \ {TUN_FLAGS_CONNECTED}
    /\ CtlGoto(f, "cleanupFlagsBarrier", "Receive")
    /\ UNCHANGED <<TransitionLock, SendLock, Owner, Device, Statistics, LinkState>>
    /\ UNCHANGED <<objVars, snd, wrk, pause, pnp, cli, histVars, probe>>

\* Lines 569-571: ExAcquireSpinLockExclusive claims the lock ...
CleanupFlagsBarrier(f) ==
    /\ ~crashed
    /\ ctl[f].pc = "cleanupFlagsBarrier"
    /\ CanClaimExclusive
    /\ TransitionLock' = ClaimedExclusive
    /\ CtlGoto(f, "cleanupFlagsBarrierWait", "Receive")
    /\ UNCHANGED <<Flags, SendLock, Owner, Device, Statistics, LinkState>>
    /\ UNCHANGED <<objVars, snd, wrk, pause, pnp, cli, histVars, probe>>

\* ... and returns once the readers are gone; ExReleaseSpinLockExclusive.
CleanupFlagsBarrierWait(f) ==
    /\ ~crashed
    /\ ctl[f].pc = "cleanupFlagsBarrierWait"
    /\ CanAcquireExclusive
    /\ TransitionLock' = ReleasedExclusive
    /\ CtlGoto(f, "cleanupUnlockPages", "Receive")
    /\ UNCHANGED <<Flags, SendLock, Owner, Device, Statistics, LinkState>>
    /\ UNCHANGED <<objVars, snd, wrk, pause, pnp, cli, histVars, probe>>

\* Lines 573 and 579.
CleanupUnlockPages(f) ==
    /\ ~crashed
    /\ ctl[f].pc = "cleanupUnlockPages"
    /\ ReleaseOp("register", "UnlockPages", ctl[f].dir)
    /\ CtlGoto(f, "cleanupMdl", ctl[f].dir)
    /\ UNCHANGED <<ctxVars, ring, thandle, snd, wrk, pause, pnp, cli,
                   received, completed, consumed, sendlog, probe>>
    /\ MayStop

\* Lines 575 and 581.
CleanupMdl(f) ==
    /\ ~crashed
    /\ ctl[f].pc = "cleanupMdl"
    /\ ReleaseOp("register", "Mdl", ctl[f].dir)
    /\ CtlGoto(f, "cleanupTailMoved", ctl[f].dir)
    /\ UNCHANGED <<ctxVars, ring, thandle, snd, wrk, pause, pnp, cli,
                   received, completed, consumed, sendlog, probe>>
    /\ MayStop

\* Lines 577 and 583.
CleanupTailMoved(f) ==
    /\ ~crashed
    /\ ctl[f].pc = "cleanupTailMoved"
    /\ ReleaseOp("register", "TailMoved", ctl[f].dir)
    /\ IF ctl[f].dir = "Receive" THEN CtlGoto(f, "cleanupUnlockPages", "Send")
       ELSE CtlGoto(f, "cleanupResetOwner", "Send")
    /\ UNCHANGED <<ctxVars, ring, thandle, snd, wrk, pause, pnp, cli,
                   received, completed, consumed, sendlog, probe>>
    /\ MayStop

\* Lines 585-586.
CleanupResetOwner(f) ==
    /\ ~crashed
    /\ ctl[f].pc = "cleanupResetOwner"
    /\ Owner' = NULL_FILE
    /\ CtlReturn(f, ctl[f].Status, FALSE)
    /\ UNCHANGED <<Flags, TransitionLock, SendLock, Device, Statistics, LinkState>>
    /\ UNCHANGED <<objVars, snd, wrk, pause, pnp, cli, histVars, probe>>

(***************************************************************************)
(* TunDispatchUnregisterBuffers, called by TunDispatch for IRP_MJ_CLOSE of *)
(* file object f (lines 655-659): the last IRP of a file object.           *)
(***************************************************************************)
\* A variant of lines 593-594 that tears down whoever the owner is.
UnregisterAnyOwner(f) ==
    /\ ~crashed
    /\ ctl[f].pc = "idle" /\ ctl[f].open
    /\ Owner' = NULL_FILE
    /\ ctl' = [ctl EXCEPT ![f].open = FALSE, ![f].pc = "UnregFlags"]
    /\ UNCHANGED <<Flags, TransitionLock, SendLock, Device, Statistics, LinkState>>
    /\ UNCHANGED <<objVars, snd, wrk, pause, pnp, cli, histVars, probe>>

\* Lines 593-594.
UnregisterOwner(f) ==
    /\ ~crashed
    /\ ctl[f].pc = "idle" /\ ctl[f].open
    /\ Owner' = InterlockedCompareExchangePointer(Owner, NULL_FILE, f)
    /\ ctl' = [ctl EXCEPT ![f].open = FALSE,
                          ![f].pc = IF Owner = f THEN "UnregFlags" ELSE "closed"]
    /\ UNCHANGED <<Flags, TransitionLock, SendLock, Device, Statistics, LinkState>>
    /\ UNCHANGED <<objVars, snd, wrk, pause, pnp, cli, histVars, probe>>

\* Line 596.
UnregFlags(f) ==
    /\ ~crashed
    /\ ctl[f].pc = "UnregFlags"
    /\ Flags' = Flags \ {TUN_FLAGS_CONNECTED}
    /\ CtlGoto(f, "UnregBarrier", "Receive")
    /\ UNCHANGED <<TransitionLock, SendLock, Owner, Device, Statistics, LinkState>>
    /\ UNCHANGED <<objVars, snd, wrk, pause, pnp, cli, histVars, probe>>

\* Lines 597-599, the claim of the lock.
UnregBarrier(f) ==
    /\ ~crashed
    /\ ctl[f].pc = "UnregBarrier"
    /\ CanClaimExclusive
    /\ TransitionLock' = ClaimedExclusive
    /\ CtlGoto(f, "UnregBarrierWait", "Receive")
    /\ UNCHANGED <<Flags, SendLock, Owner, Device, Statistics, LinkState>>
    /\ UNCHANGED <<objVars, snd, wrk, pause, pnp, cli, histVars, probe>>

\* Lines 597-599, the acquisition and the release.
UnregBarrierWait(f) ==
    /\ ~crashed
    /\ ctl[f].pc = "UnregBarrierWait"
    /\ CanAcquireExclusive
    /\ TransitionLock' = ReleasedExclusive
    /\ CtlGoto(f, "UnregSetEvent", "Receive")
    /\ UNCHANGED <<Flags, SendLock, Owner, Device, Statistics, LinkState>>
    /\ UNCHANGED <<objVars, snd, wrk, pause, pnp, cli, histVars, probe>>

\* Line 600 (dir = "Receive") and line 614 (dir = "Send").
UnregSetEvent(f) ==
    /\ ~crashed
    /\ ctl[f].pc = "UnregSetEvent"
    /\ LET dir == ctl[f].dir
           e == Device[dir].TailMoved
       IN  /\ IF e = NULL
              THEN NullDeref("unregister") /\ event' = event
              ELSE KeSetEvent("unregister", e)
           /\ IF dir = "Receive" THEN CtlGoto(f, "UnregLinkDown", "Receive")
              ELSE CtlGoto(f, "UnregUnlockPages", "Receive")
    /\ UNCHANGED <<ctxVars, ring, mdl, thandle, snd, wrk, pause, pnp, cli,
                   received, completed, consumed, sendlog, probe>>
    /\ MayStop

\* Line 602.
UnregLinkDown(f) ==
    /\ ~crashed
    /\ ctl[f].pc = "UnregLinkDown"
    /\ LinkState' = "MediaConnectStateDisconnected"
    /\ CtlGoto(f, "UnregThreadRef", "Receive")
    /\ UNCHANGED <<Flags, TransitionLock, SendLock, Owner, Device, Statistics>>
    /\ UNCHANGED <<objVars, snd, wrk, pause, pnp, cli, histVars, probe>>

\* Lines 604-606: ObReferenceObjectByHandle of the thread handle fails for
\* a handle that is not open, and the wait is then skipped.
UnregThreadRef(f) ==
    /\ ~crashed
    /\ ctl[f].pc = "UnregThreadRef"
    /\ LET h == Device.Receive.Thread
       IN  IF h # NULL_FILE /\ thandle[h] = "open"
           THEN ctl' = [ctl EXCEPT ![f].pc = "UnregThreadWait", ![f].ThreadObject = h]
           ELSE ctl' = [ctl EXCEPT ![f].pc = "UnregThreadClose"]
    /\ UNCHANGED <<ctxVars, objVars, snd, wrk, pause, pnp, cli, histVars, probe>>

\* Lines 608-609: KeWaitForSingleObject returns when the thread has ended.
UnregThreadWait(f) ==
    /\ ~crashed
    /\ ctl[f].pc = "UnregThreadWait"
    /\ wrk[ctl[f].ThreadObject].pc = "exited"
    /\ ctl' = [ctl EXCEPT ![f].pc = "UnregThreadClose", ![f].ThreadObject = NULL_FILE]
    /\ UNCHANGED <<ctxVars, objVars, snd, wrk, pause, pnp, cli, histVars, probe>>

\* Line 611.
UnregThreadClose(f) ==
    /\ ~crashed
    /\ ctl[f].pc = "UnregThreadClose"
    /\ LET h == Device.Receive.Thread
       IN  IF h # NULL_FILE /\ thandle[h] = "open"
           THEN /\ thandle' = [thandle EXCEPT ![h] = "closed"]
                /\ faults' = faults
           ELSE /\ thandle' = thandle
                /\ faults' = faults \cup {Fault("ZwClose", "unregister", <<h, "Thread">>)}
    /\ CtlGoto(f, "UnregSendTail", "Send")
    /\ UNCHANGED <<ctxVars, ring, mdl, event, snd, wrk, pause, pnp, cli,
                   received, completed, consumed, sendlog, probe>>
    /\ MayStop

\* Line 613.
UnregSendTail(f) ==
    /\ ~crashed
    /\ ctl[f].pc = "UnregSendTail"
    /\ LET r == Device.Send.Ring
       IN  IF r = NULL
           THEN NullDeref("unregister") /\ ring' = ring
           ELSE /\ ring' = [ring EXCEPT ![r].Tail = MAXULONG]
                /\ faults' = faults \cup MappingFaults("write", "unregister", r)
    /\ CtlGoto(f, "UnregSetEvent", "Send")
    /\ UNCHANGED <<ctxVars, mdl, event, thandle, snd, wrk, pause, pnp, cli,
                   received, completed, consumed, sendlog, probe>>
    /\ MayStop

\* Lines 616 and 619.
UnregUnlockPages(f) ==
    /\ ~crashed
    /\ ctl[f].pc = "UnregUnlockPages"
    /\ ReleaseOp("unregister", "UnlockPages", ctl[f].dir)
    /\ CtlGoto(f, "UnregMdl", ctl[f].dir)
    /\ UNCHANGED <<ctxVars, ring, thandle, snd, wrk, pause, pnp, cli,
                   received, completed, consumed, sendlog, probe>>
    /\ MayStop

\* Lines 617 and 620.
UnregMdl(f) ==
    /\ ~crashed
    /\ ctl[f].pc = "UnregMdl"
    /\ ReleaseOp("unregister", "Mdl", ctl[f].dir)
    /\ CtlGoto(f, "UnregTailMoved", ctl[f].dir)
    /\ UNCHANGED <<ctxVars, ring, thandle, snd, wrk, pause, pnp, cli,
                   received, completed, consumed, sendlog, probe>>
    /\ MayStop

\* Lines 618 and 621, and the return.
UnregTailMoved(f) ==
    /\ ~crashed
    /\ ctl[f].pc = "UnregTailMoved"
    /\ ReleaseOp("unregister", "TailMoved", ctl[f].dir)
    /\ IF ctl[f].dir = "Receive" THEN CtlGoto(f, "UnregUnlockPages", "Send")
       ELSE CtlGoto(f, "closed", "Send")
    /\ UNCHANGED <<ctxVars, ring, thandle, snd, wrk, pause, pnp, cli,
                   received, completed, consumed, sendlog, probe>>
    /\ MayStop


(***************************************************************************)
(* TunSendNetBufferLists on NDIS caller thread s.                          *)
(***************************************************************************)
\* The next NET_BUFFER of the batch after NET_BUFFER j of list i.
NextNb(batch, i, j) ==
    IF j < Len(batch[i]) THEN <<i, j + 1>> ELSE <<i + 1, 1>>

\* A variant of lines 294-296 that leaves the NET_BUFFER_LIST of the
\* packet it discards.
DiscardedWithList(sr, status) ==
    [sr EXCEPT !.pc = "packet", !.i = sr.i + 1, !.j = 1,
               !.DiscardedPacketsCount = @ + 1,
               !.status = [@ EXCEPT ![sr.i] = status],
               !.Status = "NONE", !.Ring = NULL,
               !.RingCapacity = ULong(0), !.PacketSize = ULong(0),
               !.AlignedPacketSize = ULong(0),
               !.RingHead = ULong(0), !.RingTail = ULong(0)]

\* Lines 294-296 (cleanupDiscardPacket) and the loop increment.
Discarded(sr, status) ==
    LET n == NextNb(sr.batch, sr.i, sr.j)
    IN  [sr EXCEPT !.pc = "packet", !.i = n[1], !.j = n[2],
                   !.DiscardedPacketsCount = @ + 1,
                   !.status = [@ EXCEPT ![sr.i] = status],
                   !.Status = "NONE", !.Ring = NULL,
                   !.RingCapacity = ULong(0), !.PacketSize = ULong(0),
                   !.AlignedPacketSize = ULong(0),
                   !.RingHead = ULong(0), !.RingTail = ULong(0)]

\* A variant of lines 250-252 that looks at RUNNING first.
SendFlagsStatusRunningFirst(F) ==
    IF TUN_FLAGS_RUNNING \notin F THEN "NDIS_STATUS_PAUSED"
    ELSE IF TUN_FLAGS_PRESENT \notin F THEN "NDIS_STATUS_ADAPTER_REMOVED"
    ELSE IF TUN_FLAGS_CONNECTED \notin F THEN "NDIS_STATUS_MEDIA_DISCONNECTED"
    ELSE "NONE"

\* Lines 250-252: the status the flags give a packet, "NONE" to go on.
SendFlagsStatus(F) ==
    IF TUN_FLAGS_PRESENT \notin F THEN "NDIS_STATUS_ADAPTER_REMOVED"
    ELSE IF TUN_FLAGS_RUNNING \notin F THEN "NDIS_STATUS_PAUSED"
    ELSE IF TUN_FLAGS_CONNECTED \notin F THEN "NDIS_STATUS_MEDIA_DISCONNECTED"
    ELSE "NONE"

\* A variant of line 273 that does not keep one TUN_ALIGNMENT unit free.
SendRingSpaceNoReserve(RingHead, RingTail, RingCapacity) ==
    TUN_RING_WRAP(Sub32(RingHead, RingTail), RingCapacity)

\* Line 273.
SendRingSpace(RingHead, RingTail, RingCapacity) ==
    TUN_RING_WRAP(Sub32(Sub32(RingHead, RingTail), ULong(TUN_ALIGNMENT)),
                  RingCapacity)

\* Line 242: NDIS calls with the NET_BUFFER_LISTs b.
SendBatch(s, b) ==
    /\ ~crashed
    /\ snd[s].pc = "idle" /\ snd[s].batches < MaxBatches
    /\ CanAcquireShared
    /\ TransitionLock' = AcquiredShared
    /\ snd' = [snd EXCEPT ![s].pc = "flags", ![s].batch = b, ![s].i = 1, ![s].j = 1,
                          ![s].status = [n \in 1 .. Len(b) |-> "UNSET"]]
    /\ UNCHANGED <<Flags, SendLock, Owner, Device, Statistics, LinkState>>
    /\ UNCHANGED <<objVars, ctl, wrk, pause, pnp, cli, histVars, probe>>

SendBegin(s) == \E b \in SendBatches(s, snd[s].batches + 1) : SendBatch(s, b)

\* Line 243.
SendFlags(s) ==
    /\ ~crashed
    /\ snd[s].pc = "flags"
    /\ snd' = [snd EXCEPT ![s].pc = "packet", ![s].Flags = Flags]
    /\ UNCHANGED <<ctxVars, objVars, ctl, wrk, pause, pnp, cli, histVars, probe>>

\* A variant of lines 245-260 without the length check.
SendPacketAnyLength(s) ==
    /\ ~crashed
    /\ snd[s].pc = "packet"
    /\ LET sr == snd[s]
       IN  IF sr.i > Len(sr.batch)
           THEN snd' = [snd EXCEPT ![s].pc = "complete"]
           ELSE LET Nb == sr.batch[sr.i][sr.j]
                    st == SendFlagsStatus(sr.Flags)
                IN  IF st # "NONE"
                    THEN snd' = [snd EXCEPT ![s] = Discarded(sr, st)]
                    ELSE IF FALSE
                    THEN snd' = [snd EXCEPT ![s] = Discarded(sr, "NDIS_STATUS_INVALID_LENGTH")]
                    ELSE snd' = [snd EXCEPT
                            ![s].pc = "lock",
                            ![s].Ring = Device.Send.Ring,
                            ![s].RingCapacity = Device.Send.Capacity,
                            ![s].PacketSize = Nb.Length,
                            ![s].AlignedPacketSize = PacketFootprint(Nb.Length)]
    /\ UNCHANGED <<ctxVars, objVars, ctl, wrk, pause, pnp, cli, histVars, probe>>

\* Lines 245-260: the loop head, the flag checks and the length check.
SendPacket(s) ==
    /\ ~crashed
    /\ snd[s].pc = "packet"
    /\ LET sr == snd[s]
       IN  IF sr.i > Len(sr.batch)
           THEN snd' = [snd EXCEPT ![s].pc = "complete"]
           ELSE LET Nb == sr.batch[sr.i][sr.j]
                    st == SendFlagsStatus(sr.Flags)
                IN  IF st # "NONE"
                    THEN snd' = [snd EXCEPT ![s] = Discarded(sr, st)]
                    ELSE IF Less32(ULong(TUN_MAX_IP_PACKET_SIZE), Nb.Length)
                    THEN snd' = [snd EXCEPT ![s] = Discarded(sr, "NDIS_STATUS_INVALID_LENGTH")]
                    ELSE snd' = [snd EXCEPT
                            ![s].pc = "lock",
                            ![s].Ring = Device.Send.Ring,
                            ![s].RingCapacity = Device.Send.Capacity,
                            ![s].PacketSize = Nb.Length,
                            ![s].AlignedPacketSize = PacketFootprint(Nb.Length)]
    /\ UNCHANGED <<ctxVars, objVars, ctl, wrk, pause, pnp, cli, histVars, probe>>

\* A variant of line 263 that does not wait for the lock's holder.
SendLockAcquireAtOnce(s) ==
    /\ ~crashed
    /\ snd[s].pc = "lock"
    /\ SendLock' = s
    /\ snd' = [snd EXCEPT ![s].pc = "head"]
    /\ UNCHANGED <<Flags, TransitionLock, Owner, Device, Statistics, LinkState>>
    /\ UNCHANGED <<objVars, ctl, wrk, pause, pnp, cli, histVars, probe>>

\* Line 263.
SendLockAcquire(s) ==
    /\ ~crashed
    /\ snd[s].pc = "lock"
    /\ SendLock = 0
    /\ SendLock' = s
    /\ snd' = [snd EXCEPT ![s].pc = "head"]
    /\ UNCHANGED <<Flags, TransitionLock, Owner, Device, Statistics, LinkState>>
    /\ UNCHANGED <<objVars, ctl, wrk, pause, pnp, cli, histVars, probe>>

\* A variant of lines 265-267 that takes any Head.
SendHeadAny(s) ==
    /\ ~crashed
    /\ snd[s].pc = "head"
    /\ LET r == snd[s].Ring
       IN  IF r = NULL
           THEN NullDeref("send") /\ snd' = snd
           ELSE /\ faults' = faults \cup MappingFaults("read", "send", r)
                /\ snd' = [snd EXCEPT
                     ![s].RingHead = ring[r].Head,
                     ![s].Status = "NDIS_STATUS_ADAPTER_NOT_READY",
                     ![s].pc = "tail"]
    /\ UNCHANGED <<ctxVars, objVars, ctl, wrk, pause, pnp, cli,
                   received, completed, consumed, sendlog, probe>>
    /\ MayStop

\* Lines 265-267.
SendHead(s) ==
    /\ ~crashed
    /\ snd[s].pc = "head"
    /\ LET r == snd[s].Ring
       IN  IF r = NULL
           THEN NullDeref("send") /\ snd' = snd
           ELSE /\ faults' = faults \cup MappingFaults("read", "send", r)
                /\ snd' = [snd EXCEPT
                     ![s].RingHead = ring[r].Head,
                     ![s].Status = "NDIS_STATUS_ADAPTER_NOT_READY",
                     ![s].pc = IF LessEq32(snd[s].RingCapacity, ring[r].Head)
                               THEN "cleanupReleaseSpinLock" ELSE "tail"]
    /\ UNCHANGED <<ctxVars, objVars, ctl, wrk, pause, pnp, cli,
                   received, completed, consumed, sendlog, probe>>
    /\ MayStop

\* A variant of lines 269-275 that wants more free space than the footprint.
SendTailStrict(s) ==
    /\ ~crashed
    /\ snd[s].pc = "tail"
    /\ LET sr == snd[s]
           RingTail == ring[sr.Ring].Tail
           RingSpace == SendRingSpace(sr.RingHead, RingTail, sr.RingCapacity)
       IN  /\ faults' = faults \cup MappingFaults("read", "send", sr.Ring)
           /\ snd' = [snd EXCEPT
                ![s].RingTail = RingTail,
                ![s].Status = IF LessEq32(sr.RingCapacity, RingTail)
                              THEN "NDIS_STATUS_ADAPTER_NOT_READY"
                              ELSE "NDIS_STATUS_BUFFER_OVERFLOW",
                ![s].pc = IF LessEq32(sr.RingCapacity, RingTail)
                             \/ LessEq32(RingSpace, sr.AlignedPacketSize)
                          THEN "cleanupReleaseSpinLock" ELSE "write"]
    /\ UNCHANGED <<ctxVars, objVars, ctl, wrk, pause, pnp, cli,
                   received, completed, consumed, sendlog, probe>>
    /\ MayStop

\* A variant of lines 269-275 that reads Tail again until the consumer
\* has made room.
SendTailWaits(s) ==
    /\ ~crashed
    /\ snd[s].pc = "tail"
    /\ LET sr == snd[s]
           RingTail == ring[sr.Ring].Tail
           RingSpace == SendRingSpace(sr.RingHead, RingTail, sr.RingCapacity)
       IN  /\ faults' = faults \cup MappingFaults("read", "send", sr.Ring)
           /\ snd' = [snd EXCEPT
                ![s].RingTail = RingTail,
                ![s].RingHead = ring[sr.Ring].Head,
                ![s].Status = IF LessEq32(sr.RingCapacity, RingTail)
                              THEN "NDIS_STATUS_ADAPTER_NOT_READY"
                              ELSE "NDIS_STATUS_BUFFER_OVERFLOW",
                ![s].pc = IF LessEq32(sr.RingCapacity, RingTail)
                          THEN "cleanupReleaseSpinLock"
                          ELSE IF Less32(RingSpace, sr.AlignedPacketSize)
                          THEN "tail" ELSE "write"]
    /\ UNCHANGED <<ctxVars, objVars, ctl, wrk, pause, pnp, cli,
                   received, completed, consumed, sendlog, probe>>
    /\ MayStop

\* Lines 269-275.
SendTail(s) ==
    /\ ~crashed
    /\ snd[s].pc = "tail"
    /\ LET sr == snd[s]
           RingTail == ring[sr.Ring].Tail
           RingSpace == SendRingSpace(sr.RingHead, RingTail, sr.RingCapacity)
       IN  /\ faults' = faults \cup MappingFaults("read", "send", sr.Ring)
           /\ snd' = [snd EXCEPT
                ![s].RingTail = RingTail,
                ![s].Status = IF LessEq32(sr.RingCapacity, RingTail)
                              THEN "NDIS_STATUS_ADAPTER_NOT_READY"
                              ELSE "NDIS_STATUS_BUFFER_OVERFLOW",
                ![s].pc = IF LessEq32(sr.RingCapacity, RingTail)
                             \/ Less32(RingSpace, sr.AlignedPacketSize)
                          THEN "cleanupReleaseSpinLock" ELSE "write"]
    /\ UNCHANGED <<ctxVars, objVars, ctl, wrk, pause, pnp, cli,
                   received, completed, consumed, sendlog, probe>>
    /\ MayStop

\* Lines 277-283: the length header is stored, then NdisGetDataBuffer
\* either yields the data (copied to Packet->Data) or fails.
SendWrite(s) ==
    /\ ~crashed
    /\ snd[s].pc = "write"
    /\ LET sr == snd[s]
           Nb == sr.batch[sr.i][sr.j]
           header == StorePacketSize(ring[sr.Ring].Data, sr.RingTail, sr.PacketSize)
       IN  \E NbData \in BOOLEAN :
             IF NbData
             THEN /\ ring' = [ring EXCEPT ![sr.Ring].Data =
                        StorePacketData(header, sr.RingTail, Nb.Data)]
                  /\ snd' = [snd EXCEPT ![s].pc = "store"]
             ELSE /\ ring' = [ring EXCEPT ![sr.Ring].Data = header]
                  /\ snd' = [snd EXCEPT ![s].pc = "cleanupReleaseSpinLock"]
    /\ faults' = faults \cup MappingFaults("write", "send", snd[s].Ring)
    /\ UNCHANGED <<ctxVars, mdl, event, thandle, ctl, wrk, pause, pnp, cli,
                   received, completed, consumed, sendlog, probe>>
    /\ MayStop

\* Line 284.
SendStore(s) ==
    /\ ~crashed
    /\ snd[s].pc = "store"
    /\ LET sr == snd[s]
       IN  /\ ring' = [ring EXCEPT ![sr.Ring].Tail =
                  RingAdvance(sr.RingTail, sr.AlignedPacketSize, sr.RingCapacity)]
           /\ sendlog' = Append(sendlog, [s |-> s, ring |-> sr.Ring, at |-> sr.RingTail,
                                          data |-> sr.batch[sr.i][sr.j].Data])
           /\ faults' = faults \cup MappingFaults("write", "send", sr.Ring)
    /\ snd' = [snd EXCEPT ![s].pc = "event"]
    /\ UNCHANGED <<ctxVars, mdl, event, thandle, ctl, wrk, pause, pnp, cli,
                   received, completed, consumed, probe>>
    /\ MayStop

\* A variant of line 285 that leaves the event alone.
SendEventNot(s) ==
    /\ ~crashed
    /\ snd[s].pc = "event"
    /\ event' = event /\ faults' = faults
    /\ snd' = [snd EXCEPT ![s].pc = "unlock"]
    /\ UNCHANGED <<ctxVars, ring, mdl, thandle, ctl, wrk, pause, pnp, cli,
                   received, completed, consumed, sendlog, probe>>
    /\ MayStop

\* Line 285.
SendEvent(s) ==
    /\ ~crashed
    /\ snd[s].pc = "event"
    /\ LET e == Device.Send.TailMoved
       IN  IF e = NULL
           THEN NullDeref("send") /\ event' = event
           ELSE KeSetEvent("send", e)
    /\ snd' = [snd EXCEPT ![s].pc = "unlock"]
    /\ UNCHANGED <<ctxVars, ring, mdl, thandle, ctl, wrk, pause, pnp, cli,
                   received, completed, consumed, sendlog, probe>>
    /\ MayStop

\* Lines 287-290.
SendUnlock(s) ==
    /\ ~crashed
    /\ snd[s].pc = "unlock"
    /\ SendLock' = 0
    /\ LET sr == snd[s]
           n == NextNb(sr.batch, sr.i, sr.j)
       IN  snd' = [snd EXCEPT ![s] =
                [sr EXCEPT !.pc = "packet", !.i = n[1], !.j = n[2],
                           !.SentPacketsCount = @ + 1,
                           !.SentPacketsSize = @ + Value(sr.PacketSize),
                           !.Status = "NONE", !.Ring = NULL,
                           !.RingCapacity = ULong(0), !.PacketSize = ULong(0),
                           !.AlignedPacketSize = ULong(0),
                           !.RingHead = ULong(0), !.RingTail = ULong(0)]]
    /\ UNCHANGED <<Flags, TransitionLock, Owner, Device, Statistics, LinkState>>
    /\ UNCHANGED <<objVars, ctl, wrk, pause, pnp, cli, histVars, probe>>

\* Lines 292-296.
SendCleanupReleaseSpinLock(s) ==
    /\ ~crashed
    /\ snd[s].pc = "cleanupReleaseSpinLock"
    /\ SendLock' = 0
    /\ snd' = [snd EXCEPT ![s] = Discarded(snd[s], snd[s].Status)]
    /\ UNCHANGED <<Flags, TransitionLock, Owner, Device, Statistics, LinkState>>
    /\ UNCHANGED <<objVars, ctl, wrk, pause, pnp, cli, histVars, probe>>

\* Lines 300-303.
SendComplete(s) ==
    /\ ~crashed
    /\ snd[s].pc = "complete"
    /\ completed' = Append(completed, [s |-> s, nbls |-> snd[s].batch,
                                      status |-> snd[s].status])
    /\ TransitionLock' = ReleasedShared
    /\ snd' = [snd EXCEPT ![s].pc = "stats", ![s].Flags = {}]
    /\ UNCHANGED <<Flags, SendLock, Owner, Device, Statistics, LinkState>>
    /\ UNCHANGED <<objVars, ctl, wrk, pause, pnp, cli,
                   faults, crashed, received, consumed, sendlog, probe>>

\* Lines 305-308.
SendStats(s) ==
    /\ ~crashed
    /\ snd[s].pc = "stats"
    /\ Statistics' = [Statistics EXCEPT
          !.ifHCOutOctets = @ + snd[s].SentPacketsSize,
          !.ifHCOutUcastOctets = @ + snd[s].SentPacketsSize,
          !.ifHCOutUcastPkts = @ + snd[s].SentPacketsCount,
          !.ifOutDiscards = @ + snd[s].DiscardedPacketsCount]
    /\ snd' = [snd EXCEPT ![s] = [IdleSnd EXCEPT !.batches = snd[s].batches + 1]]
    /\ UNCHANGED <<Flags, TransitionLock, SendLock, Owner, Device, LinkState>>
    /\ UNCHANGED <<objVars, ctl, wrk, pause, pnp, cli, histVars, probe>>


(***************************************************************************)
(* TunProcessReceiveData: the receive worker that the registration of file *)
(* object f started.                                                       *)
(***************************************************************************)
WrkSet(f, w) == wrk' = [wrk EXCEPT ![f] = w]

\* A variant of line 387 that does not wrap the difference.
ReceiveRingContentUnwrapped(RingTail, RingHead, RingCapacity) ==
    Sub32(RingTail, RingHead)

\* Line 387.
ReceiveRingContent(RingTail, RingHead, RingCapacity) ==
    TUN_RING_WRAP(Sub32(RingTail, RingHead), RingCapacity)

\* A variant of lines 400-413 that asks for more than 20 and 40 bytes.
ClassifyLonger(PacketSize, FirstByte) ==
    IF Less32(ULong(20), PacketSize) /\ FirstByte \div 16 = 4
    THEN "NDIS_NBL_FLAGS_IS_IPV4"
    ELSE IF Less32(ULong(40), PacketSize) /\ FirstByte \div 16 = 6
    THEN "NDIS_NBL_FLAGS_IS_IPV6"
    ELSE "NONE"

\* Lines 400-413: the NBL flag of a packet, "NONE" for what is not IP.
Classify(PacketSize, FirstByte) ==
    IF LessEq32(ULong(20), PacketSize) /\ FirstByte \div 16 = 4
    THEN "NDIS_NBL_FLAGS_IS_IPV4"
    ELSE IF LessEq32(ULong(40), PacketSize) /\ FirstByte \div 16 = 6
    THEN "NDIS_NBL_FLAGS_IS_IPV6"
    ELSE "NONE"

\* Line 330.
WrkStart(f) ==
    /\ ~crashed
    /\ wrk[f].pc = "start"
    /\ CanAcquireShared
    /\ TransitionLock' = AcquiredShared
    /\ WrkSet(f, [wrk[f] EXCEPT !.pc = "init", !.holds = @ + 1])
    /\ UNCHANGED <<Flags, SendLock, Owner, Device, Statistics, LinkState>>
    /\ UNCHANGED <<objVars, ctl, snd, pause, pnp, cli, histVars, probe>>

\* Lines 331-332.
WrkInit(f) ==
    /\ ~crashed
    /\ wrk[f].pc = "init"
    /\ WrkSet(f, [wrk[f] EXCEPT !.pc = "top", !.Ring = Device.Receive.Ring,
                                !.RingCapacity = Device.Receive.Capacity])
    /\ UNCHANGED <<ctxVars, objVars, ctl, snd, pause, pnp, cli, histVars, probe>>

\* Lines 337-339.
WrkTop(f) ==
    /\ ~crashed
    /\ wrk[f].pc = "top"
    /\ WrkSet(f, [wrk[f] EXCEPT
          !.Flags = Flags,
          !.RingHead = ULong(0), !.RingTail = ULong(0), !.PacketSize = ULong(0),
          !.AlignedPacketSize = ULong(0), !.NblFlags = "NONE",
          !.pc = IF TUN_FLAGS_CONNECTED \in Flags THEN "head" ELSE "exit"])
    /\ UNCHANGED <<ctxVars, objVars, ctl, snd, pause, pnp, cli, histVars, probe>>

\* Lines 342-344.
WrkHead(f) ==
    /\ ~crashed
    /\ wrk[f].pc = "head"
    /\ LET r == wrk[f].Ring
       IN  IF r = NULL
           THEN NullDeref("worker") /\ wrk' = wrk
           ELSE /\ faults' = faults \cup MappingFaults("read", "worker", r)
                /\ WrkSet(f, [wrk[f] EXCEPT
                      !.RingHead = ring[r].Head,
                      !.pc = IF LessEq32(wrk[f].RingCapacity, ring[r].Head)
                             THEN "exit" ELSE "tail"])
    /\ UNCHANGED <<ctxVars, objVars, ctl, snd, pause, pnp, cli,
                   received, completed, consumed, sendlog, probe>>
    /\ MayStop

\* Lines 346-347.
WrkTail(f) ==
    /\ ~crashed
    /\ wrk[f].pc = "tail"
    /\ LET r == wrk[f].Ring
       IN  /\ faults' = faults \cup MappingFaults("read", "worker", r)
           /\ WrkSet(f, [wrk[f] EXCEPT
                 !.RingTail = ring[r].Tail,
                 !.pc = IF ring[r].Tail = wrk[f].RingHead THEN "release" ELSE "check"])
    /\ UNCHANGED <<ctxVars, objVars, ctl, snd, pause, pnp, cli,
                   received, completed, consumed, sendlog, probe>>
    /\ MayStop

\* A variant of lines 349-351 that goes to the spin loop with the lock.
WrkReleaseNot(f) ==
    /\ ~crashed
    /\ wrk[f].pc = "release"
    /\ WrkSet(f, [wrk[f] EXCEPT !.pc = "spin_tail", !.Spin = 0])
    /\ UNCHANGED <<ctxVars, objVars, ctl, snd, pause, pnp, cli, histVars, probe>>

\* Lines 349-351.
WrkRelease(f) ==
    /\ ~crashed
    /\ wrk[f].pc = "release"
    /\ TransitionLock' = ReleasedShared
    /\ WrkSet(f, [wrk[f] EXCEPT !.pc = "spin_tail", !.holds = @ - 1, !.Spin = 0])
    /\ UNCHANGED <<Flags, SendLock, Owner, Device, Statistics, LinkState>>
    /\ UNCHANGED <<objVars, ctl, snd, pause, pnp, cli, histVars, probe>>

\* Lines 354-356, and line 368 when the tail has moved.
WrkSpinTail(f) ==
    /\ ~crashed
    /\ wrk[f].pc = "spin_tail"
    /\ LET r == wrk[f].Ring
       IN  /\ faults' = faults \cup MappingFaults("read", "worker", r)
           /\ WrkSet(f, [wrk[f] EXCEPT
                 !.RingTail = ring[r].Tail,
                 !.Spin = IF ring[r].Tail # wrk[f].RingHead THEN 0 ELSE @,
                 !.pc = IF ring[r].Tail # wrk[f].RingHead THEN "reacquire"
                        ELSE "spin_flags"])
    /\ UNCHANGED <<ctxVars, objVars, ctl, snd, pause, pnp, cli,
                   received, completed, consumed, sendlog, probe>>
    /\ MayStop

\* Lines 357-366, and line 368 when the loop ends on an empty ring: the
\* loop ends when CONNECTED is clear or SpinMax ticks have passed.
WrkSpinFlags(f) ==
    /\ ~crashed
    /\ wrk[f].pc = "spin_flags"
    /\ \/ WrkSet(f, [wrk[f] EXCEPT !.pc = "alert", !.Spin = 0])
       \/ /\ TUN_FLAGS_CONNECTED \in Flags
          /\ wrk[f].Spin < MaxSpin
          /\ WrkSet(f, [wrk[f] EXCEPT !.pc = "spin_tail", !.Spin = @ + 1])
    /\ UNCHANGED <<ctxVars, objVars, ctl, snd, pause, pnp, cli, histVars, probe>>

\* Line 370.
WrkAlert(f) ==
    /\ ~crashed
    /\ wrk[f].pc = "alert"
    /\ ring' = [ring EXCEPT ![wrk[f].Ring].Alertable = TRUE]
    /\ faults' = faults \cup MappingFaults("write", "worker", wrk[f].Ring)
    /\ WrkSet(f, [wrk[f] EXCEPT !.pc = "recheck"])
    /\ UNCHANGED <<ctxVars, mdl, event, thandle, ctl, snd, pause, pnp, cli,
                   received, completed, consumed, sendlog, probe>>
    /\ MayStop

\* A variant of lines 371-372 that waits without reading Tail again.
WrkRecheckNot(f) ==
    /\ ~crashed
    /\ wrk[f].pc = "recheck"
    /\ faults' = faults
    /\ WrkSet(f, [wrk[f] EXCEPT !.pc = "wait"])
    /\ UNCHANGED <<ctxVars, objVars, ctl, snd, pause, pnp, cli,
                   received, completed, consumed, sendlog, probe>>
    /\ MayStop

\* Lines 371-372.
WrkRecheck(f) ==
    /\ ~crashed
    /\ wrk[f].pc = "recheck"
    /\ LET r == wrk[f].Ring
       IN  /\ faults' = faults \cup MappingFaults("read", "worker", r)
           /\ WrkSet(f, [wrk[f] EXCEPT
                 !.RingTail = ring[r].Tail,
                 !.pc = IF ring[r].Tail = wrk[f].RingHead THEN "wait" ELSE "unalert"])
    /\ UNCHANGED <<ctxVars, objVars, ctl, snd, pause, pnp, cli,
                   received, completed, consumed, sendlog, probe>>
    /\ MayStop

\* Line 374, the call: the event to wait on is read from the context.
WrkWait(f) ==
    /\ ~crashed
    /\ wrk[f].pc = "wait"
    /\ LET e == Device.Receive.TailMoved
       IN  IF e = NULL
           THEN NullDeref("worker") /\ wrk' = wrk
           ELSE /\ faults' = IF event[e].Refs > 0 THEN faults
                             ELSE faults \cup {Fault("KeWaitForSingleObject", "worker", e)}
                /\ WrkSet(f, [wrk[f] EXCEPT !.pc = "waiting", !.Object = e])
    /\ UNCHANGED <<ctxVars, objVars, ctl, snd, pause, pnp, cli,
                   received, completed, consumed, sendlog, probe>>
    /\ MayStop

\* Line 374, the return: the event is signaled (a synchronization event
\* is reset by the wait it satisfies).
WrkWaitReturn(f) ==
    /\ ~crashed
    /\ wrk[f].pc = "waiting"
    /\ event[wrk[f].Object].Signaled
    /\ event' = [event EXCEPT ![wrk[f].Object].Signaled =
                    IF event[wrk[f].Object].Auto THEN FALSE ELSE @]
    /\ WrkSet(f, [wrk[f] EXCEPT !.pc = "wait_unalert", !.Object = NULL])
    /\ UNCHANGED <<ctxVars, ring, mdl, thandle, ctl, snd, pause, pnp, cli,
                   histVars, probe>>

\* Line 375 (after the wait) and line 379 (the ring was not empty).
WrkUnalert(f) ==
    /\ ~crashed
    /\ wrk[f].pc \in {"wait_unalert", "unalert"}
    /\ ring' = [ring EXCEPT ![wrk[f].Ring].Alertable = FALSE]
    /\ faults' = faults \cup MappingFaults("write", "worker", wrk[f].Ring)
    /\ WrkSet(f, [wrk[f] EXCEPT
          !.pc = IF wrk[f].pc = "wait_unalert" THEN "wait_reacquire" ELSE "clear"])
    /\ UNCHANGED <<ctxVars, mdl, event, thandle, ctl, snd, pause, pnp, cli,
                   received, completed, consumed, sendlog, probe>>
    /\ MayStop

\* Line 380.
WrkClear(f) ==
    /\ ~crashed
    /\ wrk[f].pc = "clear"
    /\ LET e == Device.Receive.TailMoved
       IN  IF e = NULL
           THEN NullDeref("worker") /\ event' = event
           ELSE /\ event' = [event EXCEPT ![e].Signaled = FALSE]
                /\ faults' = IF event[e].Refs > 0 THEN faults
                             ELSE faults \cup {Fault("KeClearEvent", "worker", e)}
    /\ WrkSet(f, [wrk[f] EXCEPT !.pc = "reacquire"])
    /\ UNCHANGED <<ctxVars, ring, mdl, thandle, ctl, snd, pause, pnp, cli,
                   received, completed, consumed, sendlog, probe>>
    /\ MayStop

\* Lines 376-377 (continue: back to the top of the loop) and line 382
\* (fall through to the packet at RingHead).
WrkReacquire(f) ==
    /\ ~crashed
    /\ wrk[f].pc \in {"wait_reacquire", "reacquire"}
    /\ CanAcquireShared
    /\ TransitionLock' = AcquiredShared
    /\ WrkSet(f, [wrk[f] EXCEPT
          !.holds = @ + 1,
          !.pc = IF wrk[f].pc = "wait_reacquire" THEN "top" ELSE "check"])
    /\ UNCHANGED <<Flags, SendLock, Owner, Device, Statistics, LinkState>>
    /\ UNCHANGED <<objVars, ctl, snd, pause, pnp, cli, histVars, probe>>

\* Lines 384-413: the checks of the packet at RingHead.
WrkCheck(f) ==
    /\ ~crashed
    /\ wrk[f].pc = "check"
    /\ LET w == wrk[f]
           Data == ring[w.Ring].Data
           RingContent == ReceiveRingContent(w.RingTail, w.RingHead, w.RingCapacity)
           PacketSize == LoadPacketSize(Data, w.RingHead)
           AlignedPacketSize == PacketFootprint(PacketSize)
           NblFlags == Classify(PacketSize,
                                ReadByte(Data, Value(w.RingHead) + SIZEOF_TUN_PACKET))
       IN  /\ faults' = IF LessEq32(w.RingCapacity, w.RingTail) THEN faults
                        ELSE faults \cup MappingFaults("read", "worker", w.Ring)
           /\ IF \/ LessEq32(w.RingCapacity, w.RingTail)
                 \/ Less32(RingContent, ULong(SIZEOF_TUN_PACKET))
                 \/ Less32(ULong(TUN_MAX_IP_PACKET_SIZE), PacketSize)
                 \/ Less32(RingContent, AlignedPacketSize)
                 \/ NblFlags = "NONE"
              THEN WrkSet(f, [w EXCEPT !.pc = "exit"])
              ELSE WrkSet(f, [w EXCEPT !.pc = "deliver", !.PacketSize = PacketSize,
                                       !.AlignedPacketSize = AlignedPacketSize,
                                       !.NblFlags = NblFlags])
    /\ UNCHANGED <<ctxVars, objVars, ctl, snd, pause, pnp, cli,
                   received, completed, consumed, sendlog, probe>>
    /\ MayStop

\* A variant of lines 426-427 that lets every packet through.
MayIndicateAlways(F) == {} \subseteq F

\* Lines 426-427: the flags the worker read at the top of the loop allow
\* the indication.
MayIndicate(F) == {TUN_FLAGS_PRESENT, TUN_FLAGS_RUNNING} \subseteq F

\* What the history keeps of a packet the worker has dealt with: the bytes
\* at Packet->Data of the mapping m (the MDL of the NET_BUFFER for a packet
\* that is indicated), whether it was indicated to NDIS (line 430) or
\* discarded (line 446), and whether MiniportPause or the removal of the
\* device had returned by then.
Received(f, w, m, up) ==
    [by |-> f, flags |-> w.NblFlags, at |-> w.RingHead,
     data |-> LoadPacketData(ring[m].Data, w.RingHead, w.PacketSize),
     indicated |-> up,
     paused |-> pause.pc = "paused",
     removed |-> pnp.pc = "removed"]

\* Lines 415-446: the NBL describes PacketSize bytes of the MDL in the
\* context, at the offset of Packet->Data; it is received or discarded.
WrkDeliver(f) ==
    /\ ~crashed
    /\ wrk[f].pc = "deliver"
    /\ LET w == wrk[f]
           m == Device.Receive.Mdl
       IN  \E Nbl \in BOOLEAN :
             IF ~Nbl \/ ~MayIndicate(w.Flags)
             THEN /\ Statistics' = [Statistics EXCEPT !.ifInDiscards = @ + 1]
                  /\ received' = Append(received, Received(f, w, w.Ring, FALSE))
                  /\ faults' = faults
             ELSE IF m = NULL
             THEN NullDeref("worker") /\ UNCHANGED <<Statistics, received>>
             ELSE /\ received' = Append(received, Received(f, w, m, TRUE))
                  /\ Statistics' = [Statistics EXCEPT
                        !.ifHCInOctets = @ + Value(w.PacketSize),
                        !.ifHCInUcastOctets = @ + Value(w.PacketSize),
                        !.ifHCInUcastPkts = @ + 1]
                  /\ faults' = faults \cup MappingFaults("read", "worker", m)
    /\ WrkSet(f, [wrk[f] EXCEPT !.pc = "advance"])
    /\ UNCHANGED <<Flags, TransitionLock, SendLock, Owner, Device, LinkState>>
    /\ UNCHANGED <<objVars, ctl, snd, pause, pnp, cli, completed, consumed,
                   sendlog, probe>>
    /\ MayStop

\* A variant of line 448 that stores the Head it read.
WrkAdvanceNowhere(f) ==
    /\ ~crashed
    /\ wrk[f].pc = "advance"
    /\ ring' = [ring EXCEPT ![wrk[f].Ring].Head = wrk[f].RingHead]
    /\ faults' = faults \cup MappingFaults("write", "worker", wrk[f].Ring)
    /\ WrkSet(f, [wrk[f] EXCEPT !.pc = "top"])
    /\ UNCHANGED <<ctxVars, mdl, event, thandle, ctl, snd, pause, pnp, cli,
                   received, completed, consumed, sendlog, probe>>
    /\ MayStop

\* Line 448.
WrkAdvance(f) ==
    /\ ~crashed
    /\ wrk[f].pc = "advance"
    /\ LET w == wrk[f]
       IN  ring' = [ring EXCEPT ![w.Ring].Head =
              RingAdvance(w.RingHead, w.AlignedPacketSize, w.RingCapacity)]
    /\ faults' = faults \cup MappingFaults("write", "worker", wrk[f].Ring)
    /\ WrkSet(f, [wrk[f] EXCEPT !.pc = "top"])
    /\ UNCHANGED <<ctxVars, mdl, event, thandle, ctl, snd, pause, pnp, cli,
                   received, completed, consumed, sendlog, probe>>
    /\ MayStop

\* A variant of line 451 that leaves Head as it is.
WrkExitHeadKeeps(f) ==
    /\ ~crashed
    /\ wrk[f].pc = "exit"
    /\ ring' = ring
    /\ faults' = faults
    /\ WrkSet(f, [wrk[f] EXCEPT !.pc = "exit_release"])
    /\ UNCHANGED <<ctxVars, mdl, event, thandle, ctl, snd, pause, pnp, cli,
                   received, completed, consumed, sendlog, probe>>
    /\ MayStop

\* Line 451.
WrkExitHead(f) ==
    /\ ~crashed
    /\ wrk[f].pc = "exit"
    /\ LET r == wrk[f].Ring
       IN  IF r = NULL
           THEN NullDeref("worker") /\ ring' = ring
           ELSE /\ ring' = [ring EXCEPT ![r].Head = MAXULONG]
                /\ faults' = faults \cup MappingFaults("write", "worker", r)
    /\ WrkSet(f, [wrk[f] EXCEPT !.pc = "exit_release"])
    /\ UNCHANGED <<ctxVars, mdl, event, thandle, ctl, snd, pause, pnp, cli,
                   received, completed, consumed, sendlog, probe>>
    /\ MayStop

\* Lines 452-453: the lock is released and the thread ends.
WrkExitRelease(f) ==
    /\ ~crashed
    /\ wrk[f].pc = "exit_release"
    /\ TransitionLock' = ReleasedShared
    /\ WrkSet(f, [NoWrk EXCEPT !.pc = "exited"])
    /\ UNCHANGED <<Flags, SendLock, Owner, Device, Statistics, LinkState>>
    /\ UNCHANGED <<objVars, ctl, snd, pause, pnp, cli, histVars, probe>>


(***************************************************************************)
(* MiniportRestart and MiniportPause (NDIS calls them in turn).            *)
(***************************************************************************)
\* A variant of lines 707-714 that starts the statistics afresh.
TunRestartZeroes ==
    /\ ~crashed
    /\ pause.pc = "paused"
    /\ Flags' = Flags \cup {TUN_FLAGS_RUNNING}
    /\ Statistics' = ZeroStatistics
    /\ pause' = [pause EXCEPT !.pc = "running"]
    /\ UNCHANGED <<TransitionLock, SendLock, Owner, Device, LinkState>>
    /\ UNCHANGED <<objVars, ctl, snd, wrk, pnp, cli, histVars, probe>>

\* Lines 707-714.
TunRestart ==
    /\ ~crashed
    /\ pause.pc = "paused"
    /\ Flags' = Flags \cup {TUN_FLAGS_RUNNING}
    /\ pause' = [pause EXCEPT !.pc = "running"]
    /\ UNCHANGED <<TransitionLock, SendLock, Owner, Device, Statistics, LinkState>>
    /\ UNCHANGED <<objVars, ctl, snd, wrk, pnp, cli, histVars, probe>>

\* Line 723.
TunPause ==
    /\ ~crashed
    /\ pause.pc = "running" /\ pause.n < MaxPauses
    /\ Flags' = Flags \ {TUN_FLAGS_RUNNING}
    /\ pause' = [pause EXCEPT !.pc = "PauseBarrier"]
    /\ UNCHANGED <<TransitionLock, SendLock, Owner, Device, Statistics, LinkState>>
    /\ UNCHANGED <<objVars, ctl, snd, wrk, pnp, cli, histVars, probe>>

\* Lines 724-726, the claim of the lock.
TunPauseBarrier ==
    /\ ~crashed
    /\ pause.pc = "PauseBarrier"
    /\ CanClaimExclusive
    /\ TransitionLock' = ClaimedExclusive
    /\ pause' = [pause EXCEPT !.pc = "PauseBarrierWait"]
    /\ UNCHANGED <<Flags, SendLock, Owner, Device, Statistics, LinkState>>
    /\ UNCHANGED <<objVars, ctl, snd, wrk, pnp, cli, histVars, probe>>

\* Lines 724-728, the acquisition, the release and the return.
TunPauseBarrierWait ==
    /\ ~crashed
    /\ pause.pc = "PauseBarrierWait"
    /\ CanAcquireExclusive
    /\ TransitionLock' = ReleasedExclusive
    /\ pause' = [pc |-> "paused", n |-> pause.n + 1]
    /\ UNCHANGED <<Flags, SendLock, Owner, Device, Statistics, LinkState>>
    /\ UNCHANGED <<objVars, ctl, snd, wrk, pnp, cli, histVars, probe>>

(***************************************************************************)
(* TunDispatchPnP.                                                         *)
(***************************************************************************)
\* Line 689: IRP_MN_QUERY_REMOVE_DEVICE or IRP_MN_SURPRISE_REMOVAL.
PnPRemove ==
    /\ ~crashed
    /\ pnp.pc = "present" /\ pnp.n < MaxRemoves
    /\ Flags' = Flags \ {TUN_FLAGS_PRESENT}
    /\ pnp' = [pnp EXCEPT !.pc = "RemoveBarrier"]
    /\ UNCHANGED <<TransitionLock, SendLock, Owner, Device, Statistics, LinkState>>
    /\ UNCHANGED <<objVars, ctl, snd, wrk, pause, cli, histVars, probe>>

\* Lines 690-692, the claim of the lock.
PnPRemoveBarrier ==
    /\ ~crashed
    /\ pnp.pc = "RemoveBarrier"
    /\ CanClaimExclusive
    /\ TransitionLock' = ClaimedExclusive
    /\ pnp' = [pnp EXCEPT !.pc = "RemoveBarrierWait"]
    /\ UNCHANGED <<Flags, SendLock, Owner, Device, Statistics, LinkState>>
    /\ UNCHANGED <<objVars, ctl, snd, wrk, pause, cli, histVars, probe>>

\* Lines 690-693, the acquisition, the release and the return.
PnPRemoveBarrierWait ==
    /\ ~crashed
    /\ pnp.pc = "RemoveBarrierWait"
    /\ CanAcquireExclusive
    /\ TransitionLock' = ReleasedExclusive
    /\ pnp' = [pnp EXCEPT !.pc = "removed"]
    /\ UNCHANGED <<Flags, SendLock, Owner, Device, Statistics, LinkState>>
    /\ UNCHANGED <<objVars, ctl, snd, wrk, pause, cli, histVars, probe>>

\* Lines 695-697: IRP_MN_CANCEL_REMOVE_DEVICE.
PnPCancelRemove ==
    /\ ~crashed
    /\ pnp.pc = "removed"
    /\ Flags' = Flags \cup {TUN_FLAGS_PRESENT}
    /\ pnp' = [pc |-> "present", n |-> pnp.n + 1]
    /\ UNCHANGED <<TransitionLock, SendLock, Owner, Device, Statistics, LinkState>>
    /\ UNCHANGED <<objVars, ctl, snd, wrk, pause, cli, histVars, probe>>

(***************************************************************************)
(* The client of file object f, as the comments of TUN_RING and            *)
(* TUN_REGISTER_RINGS ask it to behave: it adds packets to its receive     *)
(* ring once the registration has returned, keeps Head and Tail aligned    *)
(* and below capacity, signals TailMoved when the ring is alertable, and   *)
(* takes packets from its send ring.                                       *)
(***************************************************************************)
\* Lines 71-85 and 97-101: a packet is placed at Tail and Tail is moved.
ClientWrite(f) ==
    /\ ~crashed
    /\ cli[f].pc = "idle" /\ cli[f].n < MaxClientPackets
    /\ ctl[f].registered /\ ctl[f].open /\ ctl[f].pc = "idle"
    /\ LET k == <<f, "Receive">>
           r == ring[k]
       IN  /\ Less32(r.Head, ClientCapacity) /\ Less32(r.Tail, ClientCapacity)
           /\ \E Bytes \in ClientPackets(f, cli[f].n + 1) :
                LET Aligned == PacketFootprint(ULong(Len(Bytes)))
                IN  /\ LessEq32(Aligned, SendRingSpace(r.Head, r.Tail, ClientCapacity))
                    /\ ring' = [ring EXCEPT
                          ![k].Data = StorePacketData(
                              StorePacketSize(r.Data, r.Tail, ULong(Len(Bytes))),
                              r.Tail, Bytes),
                          ![k].Tail = RingAdvance(r.Tail, Aligned, ClientCapacity)]
                    /\ cli' = [cli EXCEPT ![f].pc = "signal", ![f].n = @ + 1,
                                          ![f].written = Append(@, Bytes)]
    /\ UNCHANGED <<ctxVars, mdl, event, thandle, ctl, snd, wrk, pause, pnp,
                   histVars, probe>>

\* Lines 102-104: the client signals TailMoved if the ring is alertable.
ClientSignal(f) ==
    /\ ~crashed
    /\ cli[f].pc = "signal"
    /\ event' = [event EXCEPT ![<<f, "Receive">>].Signaled =
                    IF ring[<<f, "Receive">>].Alertable THEN TRUE ELSE @]
    /\ cli' = [cli EXCEPT ![f].pc = "idle"]
    /\ UNCHANGED <<ctxVars, ring, mdl, thandle, ctl, snd, wrk, pause, pnp,
                   histVars, probe>>

\* Lines 71-77: the client takes the packet at Head of its send ring.
ClientConsume(f) ==
    /\ ~crashed
    /\ ctl[f].open
    /\ LET k == <<f, "Send">>
           r == ring[k]
           Size == LoadPacketSize(r.Data, r.Head)
       IN  /\ Less32(r.Head, ClientCapacity) /\ Less32(r.Tail, ClientCapacity)
           /\ r.Head # r.Tail
           /\ consumed' = Append(consumed,
                 [f |-> f, at |-> r.Head, Size |-> Size,
                  data |-> LoadPacketData(r.Data, r.Head, Size)])
           /\ ring' = [ring EXCEPT ![k].Head =
                 RingAdvance(r.Head, PacketFootprint(Size), ClientCapacity)]
    /\ UNCHANGED <<ctxVars, mdl, event, thandle, procVars,
                   faults, crashed, received, completed, sendlog, probe>>

(***************************************************************************)
(* The operations, grouped by the thread that runs them.                   *)
(***************************************************************************)
\* The steps of a registration other than the geometry checks.
RegisterSteps(f) ==
    \/ RegisterOwner(f) \/ RegEvent(f) \/ RegMdl(f)
    \/ RegLock(f) \/ RegMap(f) \/ RegConnected(f) \/ RegThread(f) \/ RegLinkUp(f)
    \/ CleanupFlagsConnected(f) \/ CleanupFlagsBarrier(f)
    \/ CleanupFlagsBarrierWait(f) \/ CleanupUnlockPages(f) \/ CleanupMdl(f)
    \/ CleanupTailMoved(f) \/ CleanupResetOwner(f)

TunDispatchRegisterBuffers(f) == RegCapacity(f) \/ RegisterSteps(f)

TunDispatchUnregisterBuffers(f) ==
    \/ UnregisterOwner(f) \/ UnregFlags(f) \/ UnregBarrier(f)
    \/ UnregBarrierWait(f) \/ UnregSetEvent(f) \/ UnregLinkDown(f)
    \/ UnregThreadRef(f) \/ UnregThreadWait(f) \/ UnregThreadClose(f)
    \/ UnregSendTail(f) \/ UnregUnlockPages(f) \/ UnregMdl(f) \/ UnregTailMoved(f)

\* The steps of a call after its entry.
SendSteps(s) ==
    \/ SendFlags(s) \/ SendPacket(s) \/ SendLockAcquire(s)
    \/ SendHead(s) \/ SendTail(s) \/ SendWrite(s) \/ SendStore(s) \/ SendEvent(s)
    \/ SendUnlock(s) \/ SendCleanupReleaseSpinLock(s) \/ SendComplete(s)
    \/ SendStats(s)

TunSendNetBufferLists(s) == SendBegin(s) \/ SendSteps(s)

\* The worker's steps on an empty ring, and its steps on a packet.
WrkEmptyRing(f) ==
    \/ WrkStart(f) \/ WrkInit(f) \/ WrkTop(f) \/ WrkHead(f) \/ WrkTail(f)
    \/ WrkRelease(f) \/ WrkSpinTail(f) \/ WrkSpinFlags(f) \/ WrkAlert(f)
    \/ WrkRecheck(f) \/ WrkWait(f) \/ WrkWaitReturn(f) \/ WrkUnalert(f)
    \/ WrkReacquire(f) \/ WrkExitHead(f) \/ WrkExitRelease(f)
WrkPacket(f) == WrkClear(f) \/ WrkCheck(f) \/ WrkDeliver(f) \/ WrkAdvance(f)

TunProcessReceiveData(f) == WrkEmptyRing(f) \/ WrkPacket(f)

Miniport == TunRestart \/ TunPause \/ TunPauseBarrier \/ TunPauseBarrierWait

TunDispatchPnP ==
    PnPRemove \/ PnPRemoveBarrier \/ PnPRemoveBarrierWait \/ PnPCancelRemove

Client(f) == ClientWrite(f) \/ ClientSignal(f) \/ ClientConsume(f)

Next ==
    \/ \E f \in FileObjects :
         \/ TunDispatchRegisterBuffers(f) \/ TunDispatchUnregisterBuffers(f)
         \/ TunProcessReceiveData(f) \/ Client(f)
    \/ \E s \in Senders : TunSendNetBufferLists(s)
    \/ Miniport
    \/ TunDispatchPnP

Spec == Init /\ [][Next]_vars

(***************************************************************************)
(* Specifications of parts of the driver.  Each runs some of the threads   *)
(* above, from the initial state or from a state the driver reaches.       *)
(***************************************************************************)
\* The file object that is closed in these runs; the other one stays open.
ClosedFileObject == CHOOSE f \in FileObjects : \A g \in FileObjects : f <= g
OtherFileObject == CHOOSE f \in FileObjects : f # ClosedFileObject

\* Registration from both file objects, the close of one, and the workers;
\* no client writes a packet, so the workers only see empty rings.
NextControl ==
    \/ \E f \in FileObjects :
         TunDispatchRegisterBuffers(f) \/ WrkEmptyRing(f)
    \/ TunDispatchUnregisterBuffers(ClosedFileObject)

SpecControl == Init /\ [][NextControl]_vars

\* The state after TunRestart and a successful TUN_IOCTL_REGISTER_RINGS
\* of file object f (lines 483-565, every call succeeding): the worker has
\* been created and has not run yet.
RegisteredDevice(f) ==
    [Send |-> [Mdl |-> <<f, "Send">>, Ring |-> <<f, "Send">>,
               Capacity |-> ClientCapacity, TailMoved |-> <<f, "Send">>],
     Receive |-> [Mdl |-> <<f, "Receive">>, Ring |-> <<f, "Receive">>,
                  Capacity |-> ClientCapacity, TailMoved |-> <<f, "Receive">>,
                  Thread |-> f]]

InitRegistered ==
    /\ Flags = {TUN_FLAGS_PRESENT, TUN_FLAGS_RUNNING, TUN_FLAGS_CONNECTED}
    /\ TransitionLock = [Shared |-> 0, Exclusive |-> FALSE]
    /\ SendLock = 0
    /\ Owner = ClosedFileObject
    /\ Device = RegisteredDevice(ClosedFileObject)
    /\ Statistics = ZeroStatistics
    /\ LinkState = "MediaConnectStateConnected"
    /\ ring = [k \in Rings |-> NewRing]
    /\ mdl = [k \in Rings |-> IF k[1] = ClosedFileObject THEN "locked" ELSE "none"]
    /\ \E auto \in BOOLEAN :
          event = [k \in Rings |->
                     [Refs |-> IF k[1] = ClosedFileObject THEN 1 ELSE 0,
                      Signaled |-> FALSE, Auto |-> auto]]
    /\ thandle = [f \in FileObjects |->
                    IF f = ClosedFileObject THEN "open" ELSE "none"]
    /\ ctl = [f \in FileObjects |->
                IF f = ClosedFileObject
                THEN [IdleCtl EXCEPT !.Status = "STATUS_SUCCESS", !.calls = 1,
                                     !.registered = TRUE]
                ELSE IdleCtl]
    /\ snd = [s \in Senders |-> IdleSnd]
    /\ wrk = [f \in FileObjects |->
                IF f = ClosedFileObject THEN [NoWrk EXCEPT !.pc = "start"] ELSE NoWrk]
    /\ pause = [pc |-> "running", n |-> 0]
    /\ pnp = [pc |-> "present", n |-> 0]
    /\ cli = [f \in FileObjects |-> [pc |-> "idle", n |-> 0, written |-> <<>>]]
    /\ InitHist
    /\ probe = NoProbe

\* The send path of every NDIS caller and the client taking packets.
NextSend ==
    \/ \E s \in Senders : TunSendNetBufferLists(s)
    \/ ClientConsume(ClosedFileObject)

SpecSend == InitRegistered /\ [][NextSend]_vars

\* The receive worker, its client, pause and restart.
NextReceive ==
    \/ TunProcessReceiveData(ClosedFileObject)
    \/ ClientWrite(ClosedFileObject) \/ ClientSignal(ClosedFileObject)
    \/ Miniport

SpecReceive == InitRegistered /\ [][NextReceive]_vars

\* The same with the removal of the device and its cancellation.
NextPause == NextReceive \/ TunDispatchPnP

SpecPause == InitRegistered /\ [][NextPause]_vars

\* A state SpecReceive reaches: the client has put one packet that is not
\* IP into the receive ring, and the worker has left its loop at line 412,
\* marked the ring (line 451), released the lock and ended.
WorkerExited ==
    LET f == ClosedFileObject
        Bytes == NonIpPacket(1)
    IN  /\ wrk = [g \in FileObjects |->
                    IF g = f THEN [NoWrk EXCEPT !.pc = "exited"] ELSE NoWrk]
        /\ cli = [g \in FileObjects |->
                    IF g = f THEN [pc |-> "idle", n |-> 1, written |-> <<Bytes>>]
                    ELSE [pc |-> "idle", n |-> 0, written |-> <<>>]]
        /\ ring = [k \in Rings |->
                     IF k = <<f, "Receive">>
                     THEN [Head |-> MAXULONG,
                           Tail |-> PacketFootprint(ULong(Len(Bytes))),
                           Alertable |-> FALSE,
                           Data |-> StorePacketData(
                               StorePacketSize(EmptyData, ULong(0), ULong(Len(Bytes))),
                               ULong(0), Bytes)]
                     ELSE NewRing]

InitWorkerExited ==
    /\ Flags = {TUN_FLAGS_PRESENT, TUN_FLAGS_RUNNING, TUN_FLAGS_CONNECTED}
    /\ TransitionLock = [Shared |-> 0, Exclusive |-> FALSE]
    /\ SendLock = 0
    /\ Owner = ClosedFileObject
    /\ Device = RegisteredDevice(ClosedFileObject)
    /\ Statistics = ZeroStatistics
    /\ LinkState = "MediaConnectStateConnected"
    /\ WorkerExited
    /\ mdl = [k \in Rings |-> IF k[1] = ClosedFileObject THEN "locked" ELSE "none"]
    /\ event = [k \in Rings |->
                  [Refs |-> IF k[1] = ClosedFileObject THEN 1 ELSE 0,
                   Signaled |-> FALSE, Auto |-> FALSE]]
    /\ thandle = [f \in FileObjects |->
                    IF f = ClosedFileObject THEN "open" ELSE "none"]
    /\ ctl = [f \in FileObjects |->
                IF f = ClosedFileObject
                THEN [IdleCtl EXCEPT !.Status = "STATUS_SUCCESS", !.calls = 1,
                                     !.registered = TRUE]
                ELSE IdleCtl]
    /\ snd = [s \in Senders |-> IdleSnd]
    /\ pause = [pc |-> "running", n |-> 0]
    /\ pnp = [pc |-> "present", n |-> 0]
    /\ InitHist
    /\ probe = NoProbe

\* The close of the registered file object, a registration from the other
\* file object and one NDIS caller that sends one packet.  No thread waits
\* for an event in these runs, so the events' type plays no part.
FirstSender == CHOOSE s \in Senders : \A t \in Senders : s <= t

NextTeardown ==
    \/ TunDispatchUnregisterBuffers(ClosedFileObject)
    \/ TunDispatchRegisterBuffers(OtherFileObject)
    \/ SendBatch(FirstSender, OnePacketBatch(FirstSender, snd[FirstSender].batches + 1))
    \/ SendSteps(FirstSender)

SpecTeardown == InitWorkerExited /\ [][NextTeardown]_vars

\* The close of both file objects, of which one has registered the rings,
\* and the worker.
NextClose ==
    \E f \in FileObjects : TunDispatchUnregisterBuffers(f) \/ WrkEmptyRing(f)

SpecClose == InitRegistered /\ [][NextClose]_vars

\* One file object from its registration to its close, with its worker,
\* its client, which writes one packet, one NDIS caller, pause and restart.
ClientWriteFirst(f) == cli[f].n < 1 /\ ClientWrite(f)

\* NDIS calls with one packet once the rings have been registered.
SendRegistered(s) ==
    /\ ctl[ClosedFileObject].registered
    /\ SendBatch(s, OnePacketBatch(s, snd[s].batches + 1))

NextLife ==
    \/ TunDispatchRegisterBuffers(ClosedFileObject)
    \/ TunDispatchUnregisterBuffers(ClosedFileObject)
    \/ TunProcessReceiveData(ClosedFileObject)
    \/ ClientWriteFirst(ClosedFileObject) \/ ClientSignal(ClosedFileObject)
    \/ SendRegistered(FirstSender)
    \/ SendSteps(FirstSender)
    \/ Miniport

SpecLife == Init /\ [][NextLife]_vars

\* The writers that clear a flag and pass the barrier, up to their return
\* from it (the teardown up to line 602), and one NDIS caller.
UnregisterToBarrier(f) ==
    \/ UnregisterOwner(f) \/ UnregFlags(f) \/ UnregBarrier(f)
    \/ UnregBarrierWait(f) \/ UnregSetEvent(f) \/ UnregLinkDown(f)

NextBarrier ==
    \/ SendBegin(FirstSender)
    \/ SendSteps(FirstSender)
    \/ Miniport
    \/ TunDispatchPnP
    \/ UnregisterToBarrier(ClosedFileObject)

SpecBarrier == InitRegistered /\ [][NextBarrier]_vars

\* The receive worker and a client that writes IP packets, stores the new
\* Tail and then signals TailMoved if it reads Alertable as set (lines
\* 97-104).  The worker is a system thread that runs whenever it does not
\* wait, and the client finishes the write it has begun: weak fairness of
\* the worker's steps and of the client's signal.
ClientWriteIp(f) ==
    /\ ClientWrite(f)
    /\ cli'[f].written[Len(cli'[f].written)][1] \div 16 \in {4, 6}

\* Lines 330-448: the worker's loop without its exit, which a connected
\* adapter and a ring of IP packets do not lead to.
WrkLoop(f) ==
    \/ WrkStart(f) \/ WrkInit(f) \/ WrkTop(f) \/ WrkHead(f) \/ WrkTail(f)
    \/ WrkRelease(f) \/ WrkSpinTail(f) \/ WrkSpinFlags(f) \/ WrkAlert(f)
    \/ WrkRecheck(f) \/ WrkWait(f) \/ WrkWaitReturn(f) \/ WrkUnalert(f)
    \/ WrkReacquire(f) \/ WrkPacket(f)

NextWake ==
    \/ WrkLoop(ClosedFileObject)
    \/ ClientWriteIp(ClosedFileObject) \/ ClientSignal(ClosedFileObject)

SpecWake ==
    /\ InitRegistered /\ [][NextWake]_vars
    /\ WF_vars(WrkLoop(ClosedFileObject))
    /\ WF_vars(ClientSignal(ClosedFileObject))

(***************************************************************************)
(* Registration with RingSize values around the limits of the capacity.    *)
(***************************************************************************)
\* What TUN_RING_CAPACITY takes off a RingSize: the ring header and the
\* slack after the capacity.
RingOverhead == SIZEOF_TUN_RING + Value(TUN_MAX_PACKET_SIZE) - TUN_ALIGNMENT

\* Capacities below, at and above the limits, powers of two and others.
GeometryCapacities ==
    {0, 1, TUN_ALIGNMENT, 65536,
     TUN_MIN_RING_CAPACITY - 1, TUN_MIN_RING_CAPACITY, TUN_MIN_RING_CAPACITY + 1,
     TUN_MIN_RING_CAPACITY + TUN_ALIGNMENT, 3 * 65536, 2 * TUN_MIN_RING_CAPACITY,
     TUN_MAX_RING_CAPACITY - 1, TUN_MAX_RING_CAPACITY, TUN_MAX_RING_CAPACITY + 1,
     2 * TUN_MAX_RING_CAPACITY, 16 * TUN_MAX_RING_CAPACITY}

\* The RingSize values of those capacities, and RingSize values below the
\* overhead, whose capacity wraps around, up to the largest ULONG.
GeometrySizes ==
    {ULong(c + RingOverhead) : c \in GeometryCapacities}
    \cup {ULong(0), ULong(1), ULong(RingOverhead - 1), MAXULONG,
          Sub32(ULong(TUN_MIN_RING_CAPACITY + RingOverhead), <<Half \div 2, 0>>),
          Add32(ULong(TUN_MIN_RING_CAPACITY + RingOverhead), <<Half \div 2, 0>>)}

NextGeometry ==
    \/ \E RingSize \in GeometrySizes, pointersGiven \in BOOLEAN :
         RegCapacityOf(ClosedFileObject, RingSize, pointersGiven)
    \/ RegisterSteps(ClosedFileObject)

SpecGeometry == Init /\ [][NextGeometry]_vars

(***************************************************************************)
(* The send path on send rings near their limits.  The rings of the closed *)
(* file object are registered; the flags are any the adapter can have     *)
(* while the rings are mapped; Head and Tail of the send ring, which lie   *)
(* in memory the client writes too, leave a free space around the          *)
(* footprints of the packets sent, none at all, or are out of range.       *)
(***************************************************************************)
\* An IPv4 packet of 21 bytes, one byte more than Ip4Packet.
LongIp4Packet(id) == [i \in 1 .. 21 |-> IF i = 1 THEN 69 ELSE IF i = 2 THEN id ELSE 0]

EdgeBatches(s, n) ==
    SendBatches(s, n) \cup {<< <<NetBuffer(LongIp4Packet(PacketId(s, n)))>> >>}

\* Free spaces (line 273) the initial Head leaves after Tail.
EdgeSpaces == {0, 23, 24, 25, 27, 28}
EdgeTails == {ULong(0), Sub32(ClientCapacity, ULong(2 * TUN_ALIGNMENT))}
EdgeHeads(RingTail) ==
    {TUN_RING_WRAP(Add32(RingTail, ULong(TUN_ALIGNMENT + k)), ClientCapacity) :
        k \in EdgeSpaces}
    \cup {RingTail, MAXULONG}
EdgeRings ==
    UNION {{[NewRing EXCEPT !.Head = h, !.Tail = t] : h \in EdgeHeads(t)} :
           t \in EdgeTails}
    \cup {[NewRing EXCEPT !.Tail = MAXULONG]}

InitSendEdge ==
    /\ Flags \in SUBSET {TUN_FLAGS_PRESENT, TUN_FLAGS_RUNNING, TUN_FLAGS_CONNECTED}
    /\ TransitionLock = [Shared |-> 0, Exclusive |-> FALSE]
    /\ SendLock = 0
    /\ Owner = ClosedFileObject
    /\ Device = RegisteredDevice(ClosedFileObject)
    /\ Statistics = ZeroStatistics
    /\ LinkState = "MediaConnectStateConnected"
    /\ \E r \in EdgeRings :
          ring = [k \in Rings |->
                    IF k = <<ClosedFileObject, "Send">> THEN r ELSE NewRing]
    /\ mdl = [k \in Rings |-> IF k[1] = ClosedFileObject THEN "locked" ELSE "none"]
    /\ event = [k \in Rings |->
                  [Refs |-> IF k[1] = ClosedFileObject THEN 1 ELSE 0,
                   Signaled |-> FALSE, Auto |-> FALSE]]
    /\ thandle = [f \in FileObjects |->
                    IF f = ClosedFileObject THEN "open" ELSE "none"]
    /\ ctl = [f \in FileObjects |->
                IF f = ClosedFileObject
                THEN [IdleCtl EXCEPT !.Status = "STATUS_SUCCESS", !.calls = 1,
                                     !.registered = TRUE]
                ELSE IdleCtl]
    /\ snd = [s \in Senders |-> IdleSnd]
    /\ wrk = [f \in FileObjects |->
                IF f = ClosedFileObject THEN [NoWrk EXCEPT !.pc = "start"] ELSE NoWrk]
    /\ pause = [pc |-> "running", n |-> 0]
    /\ pnp = [pc |-> "present", n |-> 0]
    /\ cli = [f \in FileObjects |-> [pc |-> "idle", n |-> 0, written |-> <<>>]]
    /\ InitHist
    /\ probe = NoProbe

SendEdgeBegin(s) == \E b \in EdgeBatches(s, snd[s].batches + 1) : SendBatch(s, b)

\* One NDIS caller; the client does not touch the ring meanwhile.
NextSendEdge == SendEdgeBegin(FirstSender) \/ SendSteps(FirstSender)

SpecSendEdge == InitSendEdge /\ [][NextSendEdge]_vars

(***************************************************************************)
(* The send path with a consumer that takes packets from the send ring or  *)
(* does not.  TunSendNetBufferLists runs at DISPATCH_LEVEL on the thread   *)
(* of its NDIS caller, which executes its next statement whenever it has   *)
(* one: weak fairness of its steps.  Nothing is assumed of the consumer.   *)
(***************************************************************************)
MaxConsumed == 2

ConsumeSome(f) == Len(consumed) < MaxConsumed /\ ClientConsume(f)

NextSendLive == NextSendEdge \/ ConsumeSome(ClosedFileObject)

SpecSendLive ==
    InitSendEdge /\ [][NextSendLive]_vars /\ WF_vars(SendSteps(FirstSender))

(***************************************************************************)
(* The ring computations on their own.  probe is a ring region outside the *)
(* driver's state: a capacity, Head, Tail and Data, to which the send      *)
(* path's and the receive worker's computations are applied.               *)
(***************************************************************************)
RECURSIVE PowersOfTwo(_, _)
PowersOfTwo(lo, hi) == IF lo > hi THEN {} ELSE {lo} \cup PowersOfTwo(2 * lo, hi)

\* The capacities registration accepts (lines 492-494).
RingCapacities ==
    {c \in {ULong(n) : n \in PowersOfTwo(TUN_MIN_RING_CAPACITY, TUN_MAX_RING_CAPACITY)} :
        RingGeometryValid(c)}

\* Offsets that are multiples of TUN_ALIGNMENT and below the capacity: at
\* the start of the ring, in its middle and at its end.
AlignedOffsets(Capacity) ==
    {ULong(TUN_ALIGNMENT * i) : i \in 0 .. NearEdge}
    \cup {Sub32(Capacity, ULong(TUN_ALIGNMENT * i)) : i \in 1 .. NearEdge}
    \cup {ULong(Value(Capacity) \div 2)}

\* Payloads of n bytes whose first byte has the high nibble v.
ProbePacket(v, n) ==
    [i \in 1 .. n |-> IF i = 1 THEN 16 * v + 5 ELSE (7 * i) % 256]
ProbeSizes == {0, 1, 19, 20, 21, 39, 40, 41, TUN_MAX_IP_PACKET_SIZE}
ProbePayloads == {ProbePacket(v, n) : v \in {0, 4, 6}, n \in ProbeSizes}

BlankProbe ==
    [kind |-> "none", Capacity |-> ULong(0), Head |-> ULong(0), Tail |-> ULong(0),
     Data |-> EmptyData, Bytes |-> <<>>, RingSpace |-> ULong(0),
     RingContent |-> ULong(0), PacketSize |-> ULong(0), Payload |-> <<>>]

\* A ring of any geometry, and an empty ring with a payload to send.
GeometryInputs ==
    {[BlankProbe EXCEPT !.kind = "geometry", !.Capacity = c, !.Head = h, !.Tail = t] :
        c \in RingCapacities,
        h \in AlignedOffsets(ULong(TUN_MIN_RING_CAPACITY)),
        t \in AlignedOffsets(ULong(TUN_MIN_RING_CAPACITY))}
    \cup UNION {{[BlankProbe EXCEPT !.kind = "geometry", !.Capacity = c,
                                     !.Head = h, !.Tail = t] :
                    h \in AlignedOffsets(c), t \in AlignedOffsets(c)} :
                 c \in RingCapacities}
PacketInputs ==
    UNION {{[BlankProbe EXCEPT !.kind = "packet", !.Capacity = c, !.Head = o,
                               !.Tail = o, !.Bytes = b] :
              o \in AlignedOffsets(c), b \in ProbePayloads} :
           c \in {ULong(TUN_MIN_RING_CAPACITY), ULong(TUN_MAX_RING_CAPACITY)}}

InitRing ==
    /\ InitCtx /\ InitObjects /\ InitProcs /\ InitHist
    /\ probe \in GeometryInputs \cup PacketInputs

\* Lines 273 and 387 on the probed geometry.
RingAccount ==
    /\ probe.kind = "geometry"
    /\ probe' = [probe EXCEPT
          !.kind = "accounted",
          !.RingSpace = SendRingSpace(probe.Head, probe.Tail, probe.Capacity),
          !.RingContent = ReceiveRingContent(probe.Tail, probe.Head, probe.Capacity)]
    /\ UNCHANGED <<ctxVars, objVars, procVars, histVars>>

\* Lines 257-284 on the probed ring, for a NET_BUFFER that holds
\* probe.Bytes and whose data NdisGetDataBuffer yields.
RingEnqueue ==
    /\ probe.kind = "packet"
    /\ LET RingCapacity == probe.Capacity
           PacketSize == NetBuffer(probe.Bytes).Length
           AlignedPacketSize == PacketFootprint(PacketSize)
           RingHead == probe.Head
           RingTail == probe.Tail
           RingSpace == SendRingSpace(RingHead, RingTail, RingCapacity)
       IN  IF \/ Less32(ULong(TUN_MAX_IP_PACKET_SIZE), PacketSize)
              \/ LessEq32(RingCapacity, RingHead)
              \/ LessEq32(RingCapacity, RingTail)
              \/ Less32(RingSpace, AlignedPacketSize)
           THEN probe' = [probe EXCEPT !.kind = "discarded"]
           ELSE probe' = [probe EXCEPT
                  !.kind = "enqueued",
                  !.Data = StorePacketData(
                               StorePacketSize(probe.Data, RingTail, PacketSize),
                               RingTail, probe.Bytes),
                  !.Tail = RingAdvance(RingTail, AlignedPacketSize, RingCapacity)]
    /\ UNCHANGED <<ctxVars, objVars, procVars, histVars>>

\* Lines 342-448 on the probed ring: one turn of the worker's loop, which
\* yields the packet at Head or leaves the loop (and line 451 marks the
\* ring).
RingDequeue ==
    /\ probe.kind = "enqueued"
    /\ LET RingCapacity == probe.Capacity
           RingHead == probe.Head
           RingTail == probe.Tail
           RingContent == ReceiveRingContent(RingTail, RingHead, RingCapacity)
           PacketSize == LoadPacketSize(probe.Data, RingHead)
           AlignedPacketSize == PacketFootprint(PacketSize)
           NblFlags == Classify(PacketSize,
                                ReadByte(probe.Data, Value(RingHead) + SIZEOF_TUN_PACKET))
       IN  IF RingHead = RingTail /\ Less32(RingHead, RingCapacity)
           THEN probe' = [probe EXCEPT !.kind = "empty"]
           ELSE IF \/ LessEq32(RingCapacity, RingHead)
                   \/ LessEq32(RingCapacity, RingTail)
                   \/ Less32(RingContent, ULong(SIZEOF_TUN_PACKET))
                   \/ Less32(ULong(TUN_MAX_IP_PACKET_SIZE), PacketSize)
                   \/ Less32(RingContent, AlignedPacketSize)
                   \/ NblFlags = "NONE"
           THEN probe' = [probe EXCEPT !.kind = "broken", !.Head = MAXULONG]
           ELSE probe' = [probe EXCEPT
                  !.kind = "dequeued",
                  !.PacketSize = PacketSize,
                  !.Payload = LoadPacketData(probe.Data, RingHead, PacketSize),
                  !.Head = RingAdvance(RingHead, AlignedPacketSize, RingCapacity)]
    /\ UNCHANGED <<ctxVars, objVars, procVars, histVars>>

NextRing == RingAccount \/ RingEnqueue \/ RingDequeue

SpecRing == InitRing /\ [][NextRing]_vars

(***************************************************************************)
(* The receive worker on a ring the client has filled as it pleased (the   *)
(* ring lies in memory the client writes too): Head and Tail in or out of  *)
(* range, a packet at Head whose length header and first byte are any, and *)
(* a Tail that ends before, at or after the end of that packet; the rings  *)
(* are disconnected meanwhile.                                             *)
(***************************************************************************)
\* Length headers (line 392) around the limits of lines 393, 402 and 407.
WorkerEdgeSizes == {19, 20, 39, 40, TUN_MAX_IP_PACKET_SIZE + 1}
\* High nibbles of Packet->Data[0] (lines 402 and 407).
WorkerEdgeNibbles == {0, 4, 6}
\* The bytes the client stored after the length header n: at most the
\* first 40 are of interest to lines 402-407.
WorkerEdgePayload(n, v) ==
    [i \in 1 .. (IF n < 40 THEN n ELSE 40) |-> IF i = 1 THEN 16 * v + 5 ELSE i]
WorkerEdgeHeads == {ULong(0), Sub32(ClientCapacity, ULong(2 * TUN_ALIGNMENT))}

\* Lines 62-66 and 71-85: the data area with lead valid IPv4 packets from
\* offset h on, followed by a packet with the length header n.
WorkerEdgeData(h, lead, n, v) ==
    LET at == RingAdvance(h, IF lead = 0 THEN ULong(0)
                             ELSE PacketFootprint(ULong(20)), ClientCapacity)
        first == IF lead = 0 THEN EmptyData
                 ELSE StorePacketData(StorePacketSize(EmptyData, h, ULong(20)),
                                      h, Ip4Packet(1))
    IN  StorePacketData(StorePacketSize(first, at, ULong(n)),
                        at, WorkerEdgePayload(n, v))

\* The Tails the client may have stored for that data: none written, two
\* bytes, the end of the last packet, one alignment unit short of it, and
\* values that are not below the capacity.
WorkerEdgeTails(h, lead, n) ==
    LET at == RingAdvance(h, IF lead = 0 THEN ULong(0)
                             ELSE PacketFootprint(ULong(20)), ClientCapacity)
        end == Add32(at, PacketFootprint(ULong(n)))
    IN  {h, RingAdvance(at, ULong(2), ClientCapacity),
         TUN_RING_WRAP(end, ClientCapacity),
         TUN_RING_WRAP(Sub32(end, ULong(TUN_ALIGNMENT)), ClientCapacity),
         ClientCapacity, MAXULONG}

WorkerEdgeRings ==
    UNION {UNION {{[NewRing EXCEPT !.Head = h, !.Tail = t,
                                   !.Data = WorkerEdgeData(h, lead, n, v)] :
                      t \in WorkerEdgeTails(h, lead, n), v \in WorkerEdgeNibbles} :
                  lead \in {0, 1}, n \in WorkerEdgeSizes} :
           h \in WorkerEdgeHeads}
    \cup {[NewRing EXCEPT !.Head = h] : h \in {ClientCapacity, MAXULONG}}

InitWorkerEdge ==
    /\ Flags = {TUN_FLAGS_PRESENT, TUN_FLAGS_RUNNING, TUN_FLAGS_CONNECTED}
    /\ TransitionLock = [Shared |-> 0, Exclusive |-> FALSE]
    /\ SendLock = 0
    /\ Owner = ClosedFileObject
    /\ Device = RegisteredDevice(ClosedFileObject)
    /\ Statistics = ZeroStatistics
    /\ LinkState = "MediaConnectStateConnected"
    /\ \E r \in WorkerEdgeRings :
          ring = [k \in Rings |->
                    IF k = <<ClosedFileObject, "Receive">> THEN r ELSE NewRing]
    /\ mdl = [k \in Rings |-> IF k[1] = ClosedFileObject THEN "locked" ELSE "none"]
    /\ event = [k \in Rings |->
                  [Refs |-> IF k[1] = ClosedFileObject THEN 1 ELSE 0,
                   Signaled |-> FALSE, Auto |-> TRUE]]
    /\ thandle = [f \in FileObjects |->
                    IF f = ClosedFileObject THEN "open" ELSE "none"]
    /\ ctl = [f \in FileObjects |->
                IF f = ClosedFileObject
                THEN [IdleCtl EXCEPT !.Status = "STATUS_SUCCESS", !.calls = 1,
                                     !.registered = TRUE]
                ELSE IdleCtl]
    /\ snd = [s \in Senders |-> IdleSnd]
    /\ wrk = [f \in FileObjects |->
                IF f = ClosedFileObject THEN [NoWrk EXCEPT !.pc = "start"] ELSE NoWrk]
    /\ pause = [pc |-> "running", n |-> 0]
    /\ pnp = [pc |-> "present", n |-> 0]
    /\ cli = [f \in FileObjects |-> [pc |-> "idle", n |-> 0, written |-> <<>>]]
    /\ InitHist
    /\ probe = NoProbe

\* The worker and the disconnect; the client stores nothing more, so the
\* worker's second reading of Tail (line 371) finds the Tail it knows.
NextWorkerEdge ==
    \/ WrkEmptyRing(ClosedFileObject)
    \/ WrkCheck(ClosedFileObject) \/ WrkDeliver(ClosedFileObject)
    \/ WrkAdvance(ClosedFileObject)
    \/ TunDispatchUnregisterBuffers(ClosedFileObject)

SpecWorkerEdge == InitWorkerEdge /\ [][NextWorkerEdge]_vars

(***************************************************************************)
(* The bytes of a ring's data area that the two packet paths touch.  The   *)
(* peer may have stored any Head and Tail, and any length header, in the   *)
(* shared ring; probe holds them, and the offsets in Ring->Data of the     *)
(* first and last byte the driver has touched (Last < First for none).     *)
(***************************************************************************)
\* Line 41 read backwards: the bytes of Data in a ring of RingSize bytes.
DataAreaSize(Capacity) ==
    Value(Capacity) + Value(TUN_MAX_PACKET_SIZE) - TUN_ALIGNMENT

\* A variant of lines 266, 270, 343 and 384 that lets the capacity pass.
RingOffsetBeyond(Offset, RingCapacity) == Less32(RingCapacity, Offset)

\* Lines 266, 270, 343 and 384: an offset the paths refuse.
RingOffsetInvalid(Offset, RingCapacity) == LessEq32(RingCapacity, Offset)

\* Offsets at the start, in the middle and at the end of the ring, aligned
\* or not, and offsets that are not below the capacity.
PeerOffsets(Capacity) ==
    {ULong(0), ULong(1), ULong(Value(Capacity) \div 2 + 2), Capacity, MAXULONG}
    \cup {Sub32(Capacity, ULong(d)) : d \in 1 .. TUN_ALIGNMENT + 1}

\* Lengths of a NET_BUFFER, or length headers the peer has stored.
PeerSizes ==
    {ULong(n) : n \in {0, 19, 20, 40, TUN_MAX_IP_PACKET_SIZE - 1,
                       TUN_MAX_IP_PACKET_SIZE, TUN_MAX_IP_PACKET_SIZE + 1}}

ExtentInputs ==
    UNION {{[kind |-> "extent", Capacity |-> c, Head |-> h, Tail |-> t,
             PacketSize |-> n, Nibble |-> v, First |-> 0, Last |-> -1] :
              h \in PeerOffsets(c), t \in PeerOffsets(c), n \in PeerSizes,
              v \in {0, 4, 6}} :
           c \in {ULong(TUN_MIN_RING_CAPACITY), ULong(TUN_MAX_RING_CAPACITY)}}

InitExtent ==
    /\ InitCtx /\ InitObjects /\ InitProcs /\ InitHist
    /\ probe \in ExtentInputs

\* Lines 257-284 for a NET_BUFFER of probe.PacketSize bytes: the header is
\* stored at Tail (line 278) and the data after it (lines 279-283).
ExtentSend ==
    /\ probe.kind = "extent"
    /\ LET RingCapacity == probe.Capacity
           PacketSize == probe.PacketSize
           AlignedPacketSize == PacketFootprint(PacketSize)
           RingHead == probe.Head
           RingTail == probe.Tail
           RingSpace == SendRingSpace(RingHead, RingTail, RingCapacity)
       IN  IF \/ Less32(ULong(TUN_MAX_IP_PACKET_SIZE), PacketSize)
              \/ RingOffsetInvalid(RingHead, RingCapacity)
              \/ RingOffsetInvalid(RingTail, RingCapacity)
              \/ Less32(RingSpace, AlignedPacketSize)
           THEN probe' = [probe EXCEPT !.kind = "refused"]
           ELSE probe' = [probe EXCEPT
                  !.kind = "written",
                  !.First = Value(RingTail),
                  !.Last = Value(RingTail) + SIZEOF_TUN_PACKET + Value(PacketSize) - 1,
                  !.Tail = RingAdvance(RingTail, AlignedPacketSize, RingCapacity)]
    /\ UNCHANGED <<ctxVars, objVars, procVars, histVars>>

\* Lines 342-448 for a ring whose length header at Head is
\* probe.PacketSize and whose first data byte has the high nibble
\* probe.Nibble: the header is read at line 392, Packet->Data[0] at lines
\* 402 and 407, and the NET_BUFFER of line 416 covers the data.
ExtentReceive ==
    /\ probe.kind = "extent"
    /\ LET RingCapacity == probe.Capacity
           RingHead == probe.Head
           RingTail == probe.Tail
           RingContent == ReceiveRingContent(RingTail, RingHead, RingCapacity)
           PacketSize == probe.PacketSize
           AlignedPacketSize == PacketFootprint(PacketSize)
           NblFlags == Classify(PacketSize, 16 * probe.Nibble)
           H == Value(RingHead)
       IN  IF RingOffsetInvalid(RingHead, RingCapacity)
           THEN probe' = [probe EXCEPT !.kind = "stopped", !.Head = MAXULONG]
           ELSE IF RingHead = RingTail
           THEN probe' = [probe EXCEPT !.kind = "empty"]
           ELSE IF \/ RingOffsetInvalid(RingTail, RingCapacity)
                   \/ Less32(RingContent, ULong(SIZEOF_TUN_PACKET))
           THEN probe' = [probe EXCEPT !.kind = "stopped", !.Head = MAXULONG]
           ELSE IF \/ Less32(ULong(TUN_MAX_IP_PACKET_SIZE), PacketSize)
                   \/ Less32(RingContent, AlignedPacketSize)
           THEN probe' = [probe EXCEPT !.kind = "stopped", !.Head = MAXULONG,
                                       !.First = H, !.Last = H + SIZEOF_TUN_PACKET - 1]
           ELSE IF NblFlags = "NONE"
           THEN probe' = [probe EXCEPT
                  !.kind = "stopped", !.Head = MAXULONG, !.First = H,
                  !.Last = IF LessEq32(ULong(20), PacketSize)
                           THEN H + SIZEOF_TUN_PACKET ELSE H + SIZEOF_TUN_PACKET - 1]
           ELSE probe' = [probe EXCEPT
                  !.kind = "read",
                  !.First = H,
                  !.Last = H + SIZEOF_TUN_PACKET + Value(PacketSize) - 1,
                  !.Head = RingAdvance(RingHead, AlignedPacketSize, RingCapacity)]
    /\ UNCHANGED <<ctxVars, objVars, procVars, histVars>>

NextExtent == ExtentSend \/ ExtentReceive

SpecExtent == InitExtent /\ [][NextExtent]_vars

\* Line 613: the teardown stores MAXULONG in Tail of the send ring.
ExtentUnregister ==
    /\ probe.kind = "extent"
    /\ probe' = [probe EXCEPT !.kind = "unregistered", !.Tail = MAXULONG]
    /\ UNCHANGED <<ctxVars, objVars, procVars, histVars>>

\* The three places where the driver stores a Head or a Tail.
NextStores == ExtentSend \/ ExtentReceive \/ ExtentUnregister

SpecStores == InitExtent /\ [][NextStores]_vars

(***************************************************************************)
(* The receive worker under a client that never lets the ring run empty,   *)
(* next to the miniport's pause and the PnP removal.  The ring is memory   *)
(* the client shares: here it writes its packets and then, each time the   *)
(* worker has advanced Head, stores the offset of its first packet in Head *)
(* again.  The statistics and the record of the delivered packets only     *)
(* grow, and are left as they are here: a behaviour that goes on for ever  *)
(* then passes through the same states again.                              *)
(***************************************************************************)
\* The client stores 0 in Head of the receive ring, where its first packet
\* starts, once the worker has moved Head past it and before the worker
\* has reached Tail.
ClientRewind(f) ==
    /\ ~crashed
    /\ cli[f].pc = "idle"
    /\ ctl[f].registered /\ ctl[f].open /\ ctl[f].pc = "idle"
    /\ LET k == <<f, "Receive">>
       IN  /\ ring[k].Head # ULong(0)
           /\ ring[k].Head # ring[k].Tail
           /\ Less32(ring[k].Head, ClientCapacity)
           /\ Less32(ring[k].Head, ring[k].Tail)
           /\ ring' = [ring EXCEPT ![k].Head = ULong(0)]
    /\ UNCHANGED <<ctxVars, mdl, event, thandle, procVars, histVars, probe>>

\* Lines 415-446, the counters of lines 436-438 and 445 not kept.
WrkDeliverUncounted(f) ==
    /\ ~crashed
    /\ wrk[f].pc = "deliver"
    /\ LET w == wrk[f]
           m == Device.Receive.Mdl
       IN  \E Nbl \in BOOLEAN :
             IF ~Nbl \/ ~MayIndicate(w.Flags)
             THEN faults' = faults
             ELSE IF m = NULL
             THEN NullDeref("worker")
             ELSE faults' = faults \cup MappingFaults("read", "worker", m)
    /\ WrkSet(f, [wrk[f] EXCEPT !.pc = "advance"])
    /\ UNCHANGED <<ctxVars, objVars, ctl, snd, pause, pnp, cli, received,
                   completed, consumed, sendlog, probe>>
    /\ MayStop

WrkBusyLoop(f) ==
    \/ WrkStart(f) \/ WrkInit(f) \/ WrkTop(f) \/ WrkHead(f) \/ WrkTail(f)
    \/ WrkRelease(f) \/ WrkSpinTail(f) \/ WrkSpinFlags(f) \/ WrkAlert(f)
    \/ WrkRecheck(f) \/ WrkWait(f) \/ WrkWaitReturn(f) \/ WrkUnalert(f)
    \/ WrkReacquire(f) \/ WrkClear(f) \/ WrkCheck(f)
    \/ WrkDeliverUncounted(f) \/ WrkAdvance(f)

NextBusy ==
    \/ WrkBusyLoop(ClosedFileObject)
    \/ ClientWriteIp(ClosedFileObject) \/ ClientSignal(ClosedFileObject)
    \/ ClientRewind(ClosedFileObject)
    \/ TunPause \/ TunPauseBarrier \/ TunPauseBarrierWait
    \/ PnPRemove \/ PnPRemoveBarrier \/ PnPRemoveBarrierWait

\* The worker is a thread that is always scheduled; TunPause and
\* TunDispatchPnP are calls that run to their end when they can.  Nothing
\* is asked of the client.
SpecBusy ==
    /\ InitRegistered /\ [][NextBusy]_vars
    /\ WF_vars(WrkBusyLoop(ClosedFileObject))
    /\ WF_vars(TunPauseBarrier) /\ WF_vars(TunPauseBarrierWait)
    /\ WF_vars(PnPRemoveBarrier) /\ WF_vars(PnPRemoveBarrierWait)

(***************************************************************************)
(* Properties of the ring computations.                                    *)
(***************************************************************************)
\* C10: for every capacity registration accepts (a power of two) and every
\* Head and Tail that are multiples of TUN_ALIGNMENT below the capacity, the
\* free space of line 273 plus the used space of line 387 is the capacity
\* less TUN_ALIGNMENT, every operation being done on ULONGs.
C10_SpacePlusContent ==
    probe.kind = "accounted" =>
        Add32(probe.RingSpace, probe.RingContent)
            = Sub32(probe.Capacity, ULong(TUN_ALIGNMENT))

\* Head is below Tail, so that Head - Tail wraps around in the ULONG, on
\* the largest ring with Tail in its last slot.
C10_Witness ==
    /\ probe.kind = "accounted"
    /\ probe.Capacity = ULong(TUN_MAX_RING_CAPACITY)
    /\ Less32(probe.Head, probe.Tail)
    /\ probe.Tail = Sub32(probe.Capacity, ULong(TUN_ALIGNMENT))
    /\ Less32(ULong(0), probe.RingSpace)

\* The payload is one the worker takes for an IP packet (lines 402-413).
IsIpPayload(Bytes) ==
    \/ Len(Bytes) >= 20 /\ Bytes[1] \div 16 = 4
    \/ Len(Bytes) >= 40 /\ Bytes[1] \div 16 = 6

\* The worker's turn on the ring has ended, and it has yielded the payload
\* that was sent, with its length.
RoundTripEnded == probe.kind \in {"dequeued", "broken", "empty", "discarded"}
RoundTripSame ==
    /\ probe.kind = "dequeued"
    /\ probe.PacketSize = ULong(Len(probe.Bytes))
    /\ probe.Payload = probe.Bytes
    /\ probe.Head = probe.Tail

\* C8, as stated: a payload of any size up to TUN_MAX_IP_PACKET_SIZE,
\* written at any aligned offset by the send path and then read by the
\* worker, comes back with the same length and bytes.
C8_RoundTripAnyPayload == RoundTripEnded => RoundTripSame

\* C8, for IP packets: a payload that is an IPv4 packet of at least 20
\* bytes or an IPv6 packet of at least 40 bytes, of at most
\* TUN_MAX_IP_PACKET_SIZE bytes, written at any aligned offset by the send
\* path and then read by the worker, comes back with the same length and
\* bytes, and the ring is empty again.
C8_RoundTripIpPacket ==
    (RoundTripEnded /\ IsIpPayload(probe.Bytes)) => RoundTripSame

\* An IPv6 packet whose size is no multiple of TUN_ALIGNMENT, written in
\* the last slot of the largest ring, so that it extends past the capacity
\* and Tail and Head wrap around.
C8_Witness ==
    /\ probe.kind = "dequeued"
    /\ probe.Capacity = ULong(TUN_MAX_RING_CAPACITY)
    /\ Len(probe.Bytes) = 41
    /\ probe.Payload = probe.Bytes
    /\ probe.Head = ULong(44)

(***************************************************************************)
(* Properties of registration and teardown.                                *)
(***************************************************************************)
\* The thread of file object f is inside TunDispatchRegisterBuffers, past
\* the owner check; it is inside TunDispatchUnregisterBuffers, past the
\* owner check.
Registering(f) ==
    ctl[f].pc \in {"RegCapacity", "RegEvent", "RegMdl", "RegLock", "RegMap",
                   "RegConnected", "RegThread", "RegLinkUp",
                   "cleanupFlagsConnected", "cleanupFlagsBarrier",
                   "cleanupFlagsBarrierWait", "cleanupUnlockPages", "cleanupMdl",
                   "cleanupTailMoved", "cleanupResetOwner"}
TearingDown(f) ==
    ctl[f].pc \in {"UnregFlags", "UnregBarrier", "UnregBarrierWait",
                   "UnregSetEvent", "UnregLinkDown", "UnregThreadRef",
                   "UnregThreadWait", "UnregThreadClose", "UnregSendTail",
                   "UnregUnlockPages", "UnregMdl", "UnregTailMoved"}

\* Something of file object f's registration is alive: an MDL of its
\* regions, a reference to one of its events, or its worker thread.
Live(f) ==
    \/ \E dir \in {"Send", "Receive"} :
          \/ mdl[<<f, dir>>] \in {"allocated", "locked", "unlocked"}
          \/ event[<<f, dir>>].Refs > 0
    \/ wrk[f].pc \notin {"none", "exited"}

\* The context holds a mapping, an event or the worker thread of f.
Installed(f) ==
    \/ \E dir \in {"Send", "Receive"} :
          \/ Device[dir].Mdl = <<f, dir>> /\ mdl[<<f, dir>>] # "freed"
          \/ Device[dir].TailMoved = <<f, dir>> /\ event[<<f, dir>>].Refs > 0
    \/ Device.Receive.Thread = f /\ thandle[f] = "open"

\* C2: in every reachable state at most one file object's pair of rings is
\* live, and while the teardown of one file object's registration is still
\* running the context holds no mapping, event or worker thread that a
\* registration from another file object installed.
C2_OneLivePair ==
    /\ Cardinality({f \in FileObjects : Live(f)}) <= 1
    /\ \A f, g \in FileObjects : (f # g /\ TearingDown(f)) => ~Installed(g)

\* C3: a call of TunDispatchRegisterBuffers that is past the owner check is
\* the recorded owner, so at most one call is past it at a time; and a call
\* that finds an owner recorded returns STATUS_ALREADY_INITIALIZED and
\* leaves the owner, the flags, the ring fields of the context and every
\* ring, MDL, event and thread as they were.
RejectedCallChangesNothing ==
    \A f \in FileObjects :
        (RegisterOwner(f) /\ Owner # NULL_FILE) =>
            /\ ctl'[f].pc = "idle"
            /\ ctl'[f].Status = "STATUS_ALREADY_INITIALIZED"
            /\ UNCHANGED <<Owner, Flags, Device, LinkState, objVars, wrk>>
C3_SingleOwner ==
    /\ [](\A f \in FileObjects : Registering(f) => Owner = f)
    /\ [][RejectedCallChangesNothing]_vars

\* A call was rejected while the call of the other file object was past
\* the owner check and had installed its send ring.
C3_Witness ==
    \E f, g \in FileObjects :
        /\ f # g
        /\ ctl[f].pc = "idle" /\ ctl[f].Status = "STATUS_ALREADY_INITIALIZED"
        /\ Registering(g) /\ Device.Send.Ring = <<g, "Send">>

\* The last TUN_IOCTL_REGISTER_RINGS call of file object f has returned a
\* failure status through the cleanup labels.
RegistrationFailed(f) ==
    /\ ~Registering(f) /\ ~ctl[f].registered /\ ctl[f].calls > 0
    /\ ctl[f].Status \notin {"NONE", "STATUS_SUCCESS", "STATUS_ALREADY_INITIALIZED"}

\* A release of an MDL, a page lock or an event reference of file object f
\* that was not held.
ReleasedUnheld(f) ==
    {x \in faults : /\ x[1] \in {"MmUnlockPages", "IoFreeMdl", "ObDereferenceObject"}
                    /\ x[3][1] = f}

\* C4: once TunDispatchRegisterBuffers has returned a failure status through
\* its cleanup labels, the caller is not the recorded owner, its worker is
\* not running, every MDL, page lock and event reference the call acquired
\* has been released, and none of them is released a second time.
C4_FailedRegistrationUndone ==
    \A f \in FileObjects :
        RegistrationFailed(f) =>
            /\ Owner # f
            /\ wrk[f].pc \in {"none", "exited"}
            /\ \A dir \in {"Send", "Receive"} :
                  /\ mdl[<<f, dir>>] \in {"none", "freed"}
                  /\ event[<<f, dir>>].Refs = 0
            /\ ReleasedUnheld(f) = {}

\* C5: no state in which a file object's teardown waits for the worker
\* thread (line 608), every kernel call so far having been a valid one, is
\* a state in which no thread can take a step: the worker can go on to its
\* exit, or the wait can return.
C5_TeardownNotStuck ==
    \A f \in FileObjects :
        (ctl[f].pc = "UnregThreadWait" /\ ~crashed /\ faults = {})
            => ENABLED NextControl

\* C1: no store of the send path to the send ring (the length header and
\* the payload at lines 278-283, Tail at line 284) goes to a ring whose
\* pages have been unlocked or whose MDL has been freed.
C1_NoSendWriteAfterRelease ==
    [][\A s \in Senders :
          (SendWrite(s) \/ SendStore(s)) =>
              mdl[snd[s].Ring] \notin {"unlocked", "freed"}]_vars

(***************************************************************************)
(* Properties of the data path.                                            *)
(***************************************************************************)
\* C6: no packet is indicated to NDIS (line 430) between the return of
\* TunPause and the next TunRestart, or between the return of the removal
\* that clears PRESENT and its cancellation.
C6_NoIndicationWhilePaused ==
    \A i \in 1 .. Len(received) :
        received[i].indicated => (~received[i].paused /\ ~received[i].removed)

\* The packets a ring holds between Head and Tail, oldest first.
RECURSIVE RingPackets(_, _, _, _, _)
RingPackets(Data, RingHead, RingTail, RingCapacity, most) ==
    IF RingHead = RingTail \/ most = 0 THEN <<>>
    ELSE LET PacketSize == LoadPacketSize(Data, RingHead)
         IN  <<LoadPacketData(Data, RingHead, PacketSize)>>
             \o RingPackets(Data,
                            RingAdvance(RingHead, PacketFootprint(PacketSize),
                                        RingCapacity),
                            RingTail, RingCapacity, most - 1)

\* What the send ring of the registered file object has held so far: the
\* packets its client took, then those between Head and Tail.
SendRingHeld ==
    LET r == ring[<<ClosedFileObject, "Send">>]
    IN  [i \in 1 .. Len(consumed) |-> consumed[i].data]
        \o RingPackets(r.Data, r.Head, r.Tail, ClientCapacity, Len(sendlog) + 1)

RECURSIVE IsSubSeq(_, _)
IsSubSeq(a, b) ==
    IF a = <<>> THEN TRUE
    ELSE IF b = <<>> THEN FALSE
    ELSE IF a[1] = b[1] THEN IsSubSeq(Tail(a), Tail(b))
    ELSE IsSubSeq(a, Tail(b))

\* The payloads of the NET_BUFFERs of the calls of sender s that have been
\* completed, in the order of submission.
RECURSIVE Payloads(_)
Payloads(nbls) ==
    IF nbls = <<>> THEN <<>>
    ELSE [j \in 1 .. Len(nbls[1]) |-> nbls[1][j].Data] \o Payloads(Tail(nbls))
RECURSIVE SubmittedBy(_, _)
SubmittedBy(s, calls) ==
    IF calls = <<>> THEN <<>>
    ELSE (IF calls[1].s = s THEN Payloads(calls[1].nbls) ELSE <<>>)
         \o SubmittedBy(s, Tail(calls))
RECURSIVE StoredBy(_, _)
StoredBy(s, log) ==
    IF log = <<>> THEN <<>>
    ELSE (IF log[1].s = s THEN <<log[1].data>> ELSE <<>>) \o StoredBy(s, Tail(log))

NoSenderInside == \A s \in Senders : snd[s].pc = "idle"

\* C7: the send ring holds the payloads of the packets the concurrent
\* callers enqueued, each whole and exactly once, in the order in which
\* Tail was moved past them; and once the callers have returned, these are
\* as many packets as the callers counted as sent, and those of one
\* caller are in the order in which that caller submitted them.
C7_SendRingHoldsAll ==
    /\ SendRingHeld = [i \in 1 .. Len(sendlog) |-> sendlog[i].data]
    /\ NoSenderInside =>
          /\ Len(SendRingHeld) = Statistics.ifHCOutUcastPkts
          /\ \A s \in Senders :
                IsSubSeq(StoredBy(s, sendlog), SubmittedBy(s, completed))

\* Both callers have returned, each has enqueued two packets, the second
\* caller's first packet went in between the two of the first caller, and
\* the client has taken none.
C7_Witness ==
    /\ NoSenderInside
    /\ consumed = <<>>
    /\ Len(sendlog) = 4
    /\ sendlog[1].s # sendlog[2].s
    /\ sendlog[2].s # sendlog[3].s
    /\ Len(SendRingHeld) = 4

\* C9: the packets the receive worker has indicated or discarded are, in
\* that order, the first packets its client placed in the receive ring: no
\* packet is left out, dealt with twice or out of its turn.
C9_ReceiveInOrder ==
    \A f \in FileObjects :
        LET dealt == SelectSeq(received, LAMBDA r : r.by = f)
        IN  /\ Len(dealt) <= Len(cli[f].written)
            /\ \A i \in 1 .. Len(dealt) : dealt[i].data = cli[f].written[i]

\* The worker has indicated the first packet and discarded the second.
C9_Witness ==
    /\ Len(received) = 2
    /\ received[1].indicated /\ ~received[2].indicated
    /\ received[1].data # received[2].data


(***************************************************************************)
(* Properties of the send path at the limits of the ring.                  *)
(***************************************************************************)
\* The bytes a packet of n payload bytes takes in a ring, and the bytes
\* free in a ring of the given capacity, as numbers.
FootprintBytes(n) ==
    ((SIZEOF_TUN_PACKET + n + TUN_ALIGNMENT - 1) \div TUN_ALIGNMENT) * TUN_ALIGNMENT
FreeBytes(RingHead, RingTail, RingCapacity) ==
    (Value(RingHead) - Value(RingTail) - TUN_ALIGNMENT) % Value(RingCapacity)
InRange(Offset, RingCapacity) == Less32(Offset, RingCapacity)

\* C11: when the send path compares a packet with the free space of a ring
\* whose Head and Tail are in range, it accepts the packet if its footprint
\* is the free space or less, so also when it equals the free space, and
\* rejects it with NDIS_STATUS_BUFFER_OVERFLOW if the footprint is larger,
\* so also when it is one byte larger.
C11_AcceptedUpToFreeSpace ==
    [][\A s \in Senders :
          (SendTail(s) /\ InRange(snd[s].RingHead, snd[s].RingCapacity)
                       /\ InRange(ring[snd[s].Ring].Tail, snd[s].RingCapacity)) =>
              LET footprint == FootprintBytes(Value(snd[s].PacketSize))
                  free == FreeBytes(snd[s].RingHead, ring[snd[s].Ring].Tail,
                                    snd[s].RingCapacity)
              IN  IF footprint <= free THEN snd'[s].pc = "write"
                  ELSE /\ snd'[s].pc = "cleanupReleaseSpinLock"
                       /\ snd'[s].Status = "NDIS_STATUS_BUFFER_OVERFLOW"]_vars

\* A packet whose footprint is the free space has been enqueued, and the
\* ring's Tail moved past it.
C11_Witness ==
    \E s \in Senders :
        /\ snd[s].pc = "event"
        /\ FootprintBytes(Value(snd[s].PacketSize))
              = FreeBytes(snd[s].RingHead, snd[s].RingTail, snd[s].RingCapacity)
        /\ ring[snd[s].Ring].Tail # snd[s].RingTail
        /\ Len(sendlog) = 1

\* A packet whose footprint is one byte more than the free space is on its
\* way out with NDIS_STATUS_BUFFER_OVERFLOW.
C11_RejectedOneByteOver ==
    \E s \in Senders :
        /\ snd[s].pc = "cleanupReleaseSpinLock"
        /\ snd[s].Status = "NDIS_STATUS_BUFFER_OVERFLOW"
        /\ FootprintBytes(Value(snd[s].PacketSize))
              = FreeBytes(snd[s].RingHead, snd[s].RingTail, snd[s].RingCapacity) + 1


(***************************************************************************)
(* Properties of the geometry checks of registration.                      *)
(***************************************************************************)
RECURSIVE TwoToThe(_)
TwoToThe(k) == IF k = 0 THEN 1 ELSE 2 * TwoToThe(k - 1)

\* RingSize is the overhead plus a power of two from 0x20000 (2^17) to
\* 0x4000000 (2^26).
GoodRingSize(RingSize) ==
    \E k \in 17 .. 26 : RingSize = ULong(TwoToThe(k) + 12 + 65536)

\* C12: for a RingSize of either ring, given with its event and its region,
\* registration goes on if the derived capacity is a power of two from
\* 0x20000 to 0x4000000, and otherwise, so also when the subtraction wraps
\* around, unwinds with STATUS_INVALID_PARAMETER.
C12_GeometryChecked ==
    [][\A f \in FileObjects : \A RingSize \in GeometrySizes :
          RegCapacityOf(f, RingSize, TRUE) =>
              IF GoodRingSize(RingSize)
              THEN ctl'[f].pc = "RegEvent"
              ELSE /\ ctl'[f].pc \in {"cleanupResetOwner", "cleanupUnlockPages"}
                   /\ ctl'[f].Status = "STATUS_INVALID_PARAMETER"]_vars

\* The call has returned STATUS_INVALID_PARAMETER for a receive ring whose
\* RingSize is too small, so that its capacity wrapped around to a large
\* value, after the send ring of the largest capacity had been accepted.
C12_Witness ==
    \E f \in FileObjects :
        /\ ctl[f].pc = "idle" /\ ctl[f].Status = "STATUS_INVALID_PARAMETER"
        /\ Device.Send.Capacity = ULong(TUN_MAX_RING_CAPACITY)
        /\ Device.Receive.Capacity = TUN_RING_CAPACITY(ULong(1))
        /\ Less32(ULong(TUN_MAX_RING_CAPACITY), Device.Receive.Capacity)


(***************************************************************************)
(* Properties of the close of a file object that is not the owner.         *)
(***************************************************************************)
\* C13: TunDispatchUnregisterBuffers for a file object that is not the
\* recorded owner, be it before, during or after the owner's teardown,
\* returns at once and leaves the owner, the flags, the link state, the
\* ring fields of the context, the rings, MDLs, events, the thread handle
\* and the worker as they were, releasing nothing.
C13_NotOwnerNoOp ==
    [][\A f \in FileObjects :
          (UnregisterOwner(f) /\ Owner # f) =>
              /\ ctl'[f].pc = "closed"
              /\ UNCHANGED <<Owner, Flags, LinkState, Device, TransitionLock,
                             ring, mdl, event, thandle, wrk, faults>>]_vars

\* Both file objects have been closed: the owner's teardown has released
\* everything, and the close of the other one has released nothing again.
C13_Witness ==
    /\ ctl[OtherFileObject].pc = "closed"
    /\ ctl[ClosedFileObject].pc = "closed"
    /\ Owner = NULL_FILE
    /\ \A dir \in {"Send", "Receive"} :
          mdl[<<ClosedFileObject, dir>>] = "freed"
    /\ faults = {}


(***************************************************************************)
(* Properties of the rejections of the send path.                          *)
(***************************************************************************)
AllFlags == {TUN_FLAGS_PRESENT, TUN_FLAGS_RUNNING, TUN_FLAGS_CONNECTED}

\* The caller s is at a NET_BUFFER of its batch (line 247).
AtNetBuffer(s) == snd[s].pc = "packet" /\ snd[s].i <= Len(snd[s].batch)
CurrentNb(s) == snd[s].batch[snd[s].i][snd[s].j]

\* The NET_BUFFERs of completed calls that are longer than
\* TUN_MAX_IP_PACKET_SIZE.
RECURSIVE CountOversized(_)
CountOversized(buffers) ==
    IF buffers = <<>> THEN 0
    ELSE (IF Value(buffers[1].Length) > TUN_MAX_IP_PACKET_SIZE THEN 1 ELSE 0)
         + CountOversized(Tail(buffers))
RECURSIVE Flatten(_)
Flatten(lists) == IF lists = <<>> THEN <<>> ELSE lists[1] \o Flatten(Tail(lists))
CompletedBuffers == Flatten(Flatten([i \in 1 .. Len(completed) |-> completed[i].nbls]))

\* C14: a NET_BUFFER longer than TUN_MAX_IP_PACKET_SIZE that passes the
\* flag checks gets NDIS_STATUS_INVALID_LENGTH, is counted as one discard
\* by the call, which adds its count to ifOutDiscards, and leaves the send
\* ring, data and Tail, as it was; no oversized payload is ever in the ring.
C14_OversizedRejected ==
    /\ [][\A s \in Senders :
            (SendPacket(s) /\ AtNetBuffer(s) /\ snd[s].Flags = AllFlags
                /\ Value(CurrentNb(s).Length) > TUN_MAX_IP_PACKET_SIZE) =>
                /\ snd'[s].status[snd[s].i] = "NDIS_STATUS_INVALID_LENGTH"
                /\ snd'[s].DiscardedPacketsCount = snd[s].DiscardedPacketsCount + 1
                /\ snd'[s].SentPacketsCount = snd[s].SentPacketsCount
                /\ snd'[s].pc = "packet"
                /\ UNCHANGED ring]_vars
    /\ [][\A s \in Senders :
            SendStats(s) => Statistics'.ifOutDiscards
                              = Statistics.ifOutDiscards + snd[s].DiscardedPacketsCount]_vars
    /\ []((\A s \in Senders : snd[s].pc = "idle") =>
            Statistics.ifOutDiscards >= CountOversized(CompletedBuffers))
    /\ [](\A i \in 1 .. Len(sendlog) : Len(sendlog[i].data) <= TUN_MAX_IP_PACKET_SIZE)

\* The call that sent an oversized NET_BUFFER and then an IPv4 packet to a
\* connected adapter with an empty ring has returned: one discard is
\* counted and the ring holds the IPv4 packet only.
C14_Witness ==
    /\ \A s \in Senders : snd[s].pc = "idle"
    /\ CountOversized(CompletedBuffers) = 1
    /\ Statistics.ifOutDiscards = 1
    /\ Statistics.ifHCOutUcastPkts = 1
    /\ Len(sendlog) = 1
    /\ completed[1].status[1] = "NDIS_STATUS_INVALID_LENGTH"


\* The caller s is past the flag and length checks with a packet.
PastChecks(s) ==
    snd[s].pc \in {"lock", "head", "tail", "write", "store", "event", "unlock",
                   "cleanupReleaseSpinLock"}

\* C15: the send path takes a packet past the flag checks only if PRESENT,
\* RUNNING and CONNECTED are all in the flags it read at its entry; a
\* packet it meets with one of them clear is counted as discarded, leaves
\* the ring as it was, and gets NDIS_STATUS_ADAPTER_REMOVED if PRESENT is
\* clear, else NDIS_STATUS_PAUSED if RUNNING is clear, else
\* NDIS_STATUS_MEDIA_DISCONNECTED.
C15_FlagsGateSend ==
    /\ [](\A s \in Senders : PastChecks(s) => AllFlags \subseteq snd[s].Flags)
    /\ [][\A s \in Senders :
            (SendPacket(s) /\ AtNetBuffer(s) /\ ~(AllFlags \subseteq snd[s].Flags)) =>
                /\ snd'[s].pc = "packet"
                /\ snd'[s].DiscardedPacketsCount = snd[s].DiscardedPacketsCount + 1
                /\ UNCHANGED <<ring, sendlog>>
                /\ snd'[s].status[snd[s].i] =
                      (CASE TUN_FLAGS_PRESENT \notin snd[s].Flags ->
                              "NDIS_STATUS_ADAPTER_REMOVED"
                         [] TUN_FLAGS_PRESENT \in snd[s].Flags
                            /\ TUN_FLAGS_RUNNING \notin snd[s].Flags ->
                              "NDIS_STATUS_PAUSED"
                         [] OTHER -> "NDIS_STATUS_MEDIA_DISCONNECTED")]_vars

\* A call on an adapter that is present, paused and not connected has
\* returned its packet with NDIS_STATUS_PAUSED, and the ring is untouched.
C15_Witness ==
    /\ Flags = {TUN_FLAGS_PRESENT}
    /\ Len(completed) = 1
    /\ completed[1].status[1] = "NDIS_STATUS_PAUSED"
    /\ sendlog = <<>>
    /\ Statistics.ifOutDiscards >= 1


\* The step from the current state sends the packet of caller s to one of
\* the two cleanup labels (lines 292-296).
Rejects(s) ==
    \/ snd[s].pc # "cleanupReleaseSpinLock" /\ snd'[s].pc = "cleanupReleaseSpinLock"
    \/ snd'[s].DiscardedPacketsCount = snd[s].DiscardedPacketsCount + 1

\* The statuses of the rejections that come before the data is fetched.
EarlierCauses ==
    {"NDIS_STATUS_ADAPTER_REMOVED", "NDIS_STATUS_PAUSED",
     "NDIS_STATUS_MEDIA_DISCONNECTED", "NDIS_STATUS_INVALID_LENGTH",
     "NDIS_STATUS_ADAPTER_NOT_READY", "NDIS_STATUS_BUFFER_OVERFLOW"}

\* C16: a step that rejects a packet, for any cause, the failure of
\* NdisGetDataBuffer after the free-space check included, leaves Tail and
\* every byte of the ring's data area as they were, and the status of a
\* packet whose data could not be fetched is not the status of another
\* cause.
C16_RejectionLeavesRing ==
    [][\A s \in Senders :
         Rejects(s) =>
            /\ ring' = ring
            /\ snd[s].pc = "write" => snd'[s].Status \notin EarlierCauses]_vars


(***************************************************************************)
(* Properties of the receive worker and the transition lock.               *)
(***************************************************************************)
\* The worker is in its spin loop (lines 352-367), between the loop and
\* the wait (lines 368-372), in KeWaitForSingleObject (line 374) or between
\* the wait and the next acquisition of the lock (lines 375-382).
SpinsOrWaits(f) ==
    wrk[f].pc \in {"spin_tail", "spin_flags", "alert", "recheck", "wait", "waiting",
                   "wait_unalert", "unalert", "clear", "wait_reacquire", "reacquire"}

\* The worker reads the packet at RingHead (lines 384-413), hands it to
\* NDIS or discards it (lines 415-446), or moves Head (line 448).
ReadsOrIndicates(f) == wrk[f].pc \in {"check", "deliver", "advance"}

\* C17: the receive worker holds no shared acquisition of the transition
\* lock while it spins or waits for the receive notification, and exactly
\* one while it reads a packet or indicates it; the worker being the only
\* shared holder here, the lock's count of shared holders says the same.
C17_NoWaitUnderLock ==
    \A f \in FileObjects :
        /\ SpinsOrWaits(f) => wrk[f].holds = 0
        /\ ReadsOrIndicates(f) => wrk[f].holds = 1
        /\ f = ClosedFileObject /\ wrk[f].pc \notin {"none", "exited"} =>
              TransitionLock.Shared = wrk[f].holds

\* The worker is in KeWaitForSingleObject, nobody holds the lock shared,
\* and MiniportPause has passed its barrier meanwhile.
C17_Witness ==
    /\ wrk[ClosedFileObject].pc = "waiting"
    /\ wrk[ClosedFileObject].holds = 0
    /\ TransitionLock.Shared = 0
    /\ pause.pc = "paused"


(***************************************************************************)
(* Properties of the teardown and the receive worker.                      *)
(***************************************************************************)
\* The step from the current state unlocks or frees the memory of ring k,
\* or drops the reference to its event.
Releases(k) ==
    \/ mdl[k] = "locked" /\ mdl'[k] # "locked"
    \/ mdl[k] = "unlocked" /\ mdl'[k] = "freed"
    \/ event'[k].Refs < event[k].Refs

\* The worker that the registration of file object f started runs.
WorkerRuns(f) == wrk[f].pc \notin {"none", "exited"}

\* C18: no step releases the memory or the event of a ring of file object
\* f while the receive worker of f's registration has not ended, and the
\* worker never reads or writes a ring that is not mapped and never waits
\* on or clears an event that is not referenced.
C18_ReleaseAfterWorkerExit ==
    /\ [][\A k \in Rings : Releases(k) => ~WorkerRuns(k[1])]_vars
    /\ [](\A x \in faults : x[2] = "worker" => x[1] = "NULL")


(***************************************************************************)
(* Properties of a whole call of TunSendNetBufferLists.                    *)
(***************************************************************************)
\* C19: a call of TunSendNetBufferLists that has started reaches its end
\* with its NET_BUFFER_LISTs completed, whatever the ring holds and whether
\* or not the consumer takes anything from it, and while it runs it always
\* has a next statement to execute: it waits for nobody.
C19_BatchTerminates ==
    /\ \A s \in Senders :
          (snd[s].pc = "flags") ~>
             (/\ snd[s].pc = "stats"
              /\ completed # <<>>
              /\ completed[Len(completed)].nbls = snd[s].batch)
    /\ [](snd[FirstSender].pc # "idle" => ENABLED <<SendSteps(FirstSender)>>_vars)

\* A call has ended with its packet refused for want of room, the ring
\* being full, and the consumer has taken nothing.
C19_Witness ==
    /\ snd[FirstSender].pc = "stats"
    /\ Len(completed) = 1
    /\ completed[1].status[1] = "NDIS_STATUS_BUFFER_OVERFLOW"
    /\ consumed = <<>>
    /\ sendlog = <<>>


\* The packets of the n-th call of caller s that are in the send ring: the
\* second byte of a packet names the call it is of.
RECURSIVE EnqueuedOf(_, _, _)
EnqueuedOf(log, s, n) ==
    IF log = <<>> THEN <<>>
    ELSE (IF log[1].s = s /\ log[1].data[2] = PacketId(s, n)
          THEN <<log[1].data>> ELSE <<>>) \o EnqueuedOf(Tail(log), s, n)

RECURSIVE PayloadOctets(_)
PayloadOctets(packets) ==
    IF packets = <<>> THEN 0 ELSE Len(packets[1]) + PayloadOctets(Tail(packets))

\* C20: when a call that submitted n NET_BUFFERs adds its counts to the
\* statistics (lines 305-308), ifHCOutUcastPkts grows by the number of its
\* packets that are in the ring, ifHCOutOctets and ifHCOutUcastOctets by
\* the sum of their payload sizes, and ifOutDiscards by n less that
\* number; and a discarded packet is followed by the next NET_BUFFER of
\* the call, of the same list or of the next.
C20_CountersMatchBatch ==
    /\ [][\A s \in Senders :
            SendStats(s) =>
               LET n == Len(Flatten(snd[s].batch))
                   enqueued == EnqueuedOf(sendlog, s, snd[s].batches + 1)
               IN  /\ Statistics'.ifHCOutUcastPkts =
                         Statistics.ifHCOutUcastPkts + Len(enqueued)
                   /\ Statistics'.ifHCOutOctets =
                         Statistics.ifHCOutOctets + PayloadOctets(enqueued)
                   /\ Statistics'.ifHCOutUcastOctets =
                         Statistics.ifHCOutUcastOctets + PayloadOctets(enqueued)
                   /\ Statistics'.ifOutDiscards =
                         Statistics.ifOutDiscards + (n - Len(enqueued))
                   /\ Len(enqueued) <= n]_vars
    /\ [][\A s \in Senders :
            snd'[s].DiscardedPacketsCount = snd[s].DiscardedPacketsCount + 1 =>
               /\ snd'[s].pc = "packet"
               /\ <<snd'[s].i, snd'[s].j>> =
                     IF snd[s].j < Len(snd[s].batch[snd[s].i])
                     THEN <<snd[s].i, snd[s].j + 1>> ELSE <<snd[s].i + 1, 1>>]_vars

\* A call of two NET_BUFFERs in one list has ended: the first was refused
\* for its length, the second is in the ring, and the counters say one
\* packet of 20 octets sent and one discarded.
C20_Witness ==
    /\ snd[FirstSender].pc = "idle" /\ snd[FirstSender].batches = 1
    /\ Len(completed) = 1
    /\ Len(completed[1].nbls) = 1 /\ Len(completed[1].nbls[1]) = 2
    /\ Value(completed[1].nbls[1][1].Length) > TUN_MAX_IP_PACKET_SIZE
    /\ Len(sendlog) = 1
    /\ sendlog[1].data = completed[1].nbls[1][2].Data
    /\ Statistics.ifHCOutUcastPkts = 1
    /\ Statistics.ifHCOutOctets = 20 /\ Statistics.ifHCOutUcastOctets = 20
    /\ Statistics.ifOutDiscards = 1


(***************************************************************************)
(* Properties of the statistics.                                           *)
(***************************************************************************)
\* C21: no step of a send call, of the receive worker, of a registration,
\* of a teardown, of MiniportPause or of MiniportRestart makes any of the
\* octet, packet and discard counters of the two directions smaller.
C21_CountersNeverDecrease ==
    [][\A c \in DOMAIN Statistics : Statistics'[c] >= Statistics[c]]_vars

\* The file object has been closed after a packet was indicated and a
\* send call was counted, and the adapter has been paused and restarted.
C21_Witness ==
    /\ ctl[ClosedFileObject].pc = "closed"
    /\ Statistics.ifHCInUcastPkts >= 1
    /\ Statistics.ifHCOutUcastPkts + Statistics.ifOutDiscards >= 1
    /\ pause.pc = "running" /\ pause.n >= 1


(***************************************************************************)
(* Properties of the bytes the packet paths touch.                         *)
(***************************************************************************)
\* The driver has touched bytes of the probed ring.
Touched == probe.kind \in {"written", "read", "stopped"} /\ probe.First <= probe.Last

\* C22: whatever Head and Tail below the capacity the peer has stored,
\* multiples of TUN_ALIGNMENT or not, every byte the send path writes and
\* every byte the receive worker reads or hands to NDIS is a byte of the
\* ring's data area, which has the capacity plus the largest footprint
\* less TUN_ALIGNMENT bytes.
C22_TouchedBytesInDataArea ==
    Touched =>
        /\ 0 <= probe.First
        /\ probe.Last < Value(probe.Capacity) + 65540 - 4


\* A multiple of TUN_ALIGNMENT.
IsAligned(u) == Value(u) % 4 = 0

\* The bytes of a record with n bytes of payload, header and padding
\* included.
RecordBytes(n) == ((4 + n + 3) \div 4) * 4

\* C23: with Head and Tail multiples of TUN_ALIGNMENT, a record the send
\* path writes and a record the receive worker accepts starts below the
\* capacity and ends, padding included, at or before the capacity plus
\* the slack: it is one run of bytes of the data area, never continued at
\* offset 0.
C23_RecordsContiguous ==
    (/\ probe.kind \in {"written", "read"}
     /\ probe.First % 4 = 0
     /\ IF probe.kind = "written" THEN IsAligned(probe.Head) ELSE IsAligned(probe.Tail)) =>
        /\ 0 <= probe.First /\ probe.First < Value(probe.Capacity)
        /\ probe.Last + 1 = probe.First + 4 + Value(probe.PacketSize)
        /\ probe.First + RecordBytes(Value(probe.PacketSize))
              <= Value(probe.Capacity) + 65540 - 4

\* The largest packet has been written at the last aligned offset of the
\* ring: its record ends with the data area.
C23_Witness ==
    /\ probe.kind = "written"
    /\ IsAligned(probe.Head)
    /\ probe.First = Value(probe.Capacity) - 4
    /\ Value(probe.PacketSize) = TUN_MAX_IP_PACKET_SIZE
    /\ probe.First + RecordBytes(Value(probe.PacketSize)) = Value(probe.Capacity) + 65536
    /\ probe.Tail = ULong(65536)


(***************************************************************************)
(* Properties of the flags and the two packet paths.                       *)
(***************************************************************************)
\* The flags that were set when caller s read them (line 243) and that
\* have been cleared since.
StaleFlags(s) == snd[s].Flags \ Flags

\* C24: a send call that works with a flag it read before a writer cleared
\* it is never running once that writer has returned from its pair of
\* ExAcquireSpinLockExclusive and ExReleaseSpinLockExclusive: while a call
\* has a stale RUNNING, TunPause is at its barrier; a stale PRESENT, the
\* removal is at its barrier; a stale CONNECTED, the teardown or the
\* cleanup of a registration is at its barrier.  A call that has released
\* its shared acquisition (line 303) writes nothing more to the ring.
C24_BarrierDrainsSenders ==
    /\ [](\A s \in Senders :
            /\ TUN_FLAGS_RUNNING \in StaleFlags(s) =>
                  pause.pc \in {"PauseBarrier", "PauseBarrierWait"}
            /\ TUN_FLAGS_PRESENT \in StaleFlags(s) =>
                  pnp.pc \in {"RemoveBarrier", "RemoveBarrierWait"}
            /\ TUN_FLAGS_CONNECTED \in StaleFlags(s) =>
                  \E f \in FileObjects :
                     ctl[f].pc \in {"UnregBarrier", "UnregBarrierWait",
                                    "cleanupFlagsBarrier", "cleanupFlagsBarrierWait"})
    /\ [](\A s \in Senders :
            snd[s].pc \in {"packet", "lock", "head", "tail", "write", "store", "event",
                           "unlock", "cleanupReleaseSpinLock", "complete"}
               => TransitionLock.Shared >= 1)
    /\ [][\A s \in Senders : snd[s].pc \in {"idle", "stats"} /\ snd'[s] # snd[s]
             => ring' = ring]_vars

\* TunPause has returned after waiting for a call that had read RUNNING as
\* set: the call has put its packet into the ring and has released the
\* lock, and has not yet added its counts to the statistics.
C24_Witness ==
    /\ pause.pc = "paused"
    /\ snd[FirstSender].pc = "stats"
    /\ Len(sendlog) = 1
    /\ Len(completed) = 1
    /\ TransitionLock.Shared = 0
    /\ TUN_FLAGS_RUNNING \notin Flags


\* C25: a NET_BUFFER whose turn comes (line 247) when PRESENT, RUNNING or
\* CONNECTED is clear in the adapter's flags is discarded, whether or not
\* earlier NET_BUFFERs of the same call were put into the ring.
C25_PacketSeesClearedFlag ==
    [][\A s \in Senders :
         (SendPacket(s) /\ AtNetBuffer(s) /\ ~(AllFlags \subseteq Flags)) =>
            /\ snd'[s].DiscardedPacketsCount = snd[s].DiscardedPacketsCount + 1
            /\ snd'[s].pc = "packet"]_vars


\* C26: whenever the receive worker has acquired the transition lock again
\* after waiting on an empty ring, in the spin loop or in
\* KeWaitForSingleObject, it goes to the top of its loop, where it reads
\* the flags and tests CONNECTED (lines 337-339), before it decodes a
\* packet.
C26_FlagsReadAfterWait ==
    [][\A f \in FileObjects : WrkReacquire(f) => wrk'[f].pc = "top"]_vars


\* The receive ring of file object f holds a packet.
ReceiveRingNonEmpty(f) == ring[<<f, "Receive">>].Head # ring[<<f, "Receive">>].Tail

\* C27: with a client that stores Tail and then signals TailMoved when it
\* reads Alertable as set, the worker does not stay in
\* KeWaitForSingleObject while the receive ring holds a packet, and every
\* packet the client has written is in the end indicated or discarded,
\* also when the worker has cleared the event at line 380.
C27_NoLostWakeup ==
    /\ \A f \in FileObjects :
          (wrk[f].pc = "waiting" /\ ReceiveRingNonEmpty(f)) ~> (wrk[f].pc # "waiting")
    /\ \A n \in 1 .. MaxClientPackets :
          (Len(cli[ClosedFileObject].written) >= n) ~> (Len(received) >= n)

\* The worker has dealt with the two packets the client wrote and is in
\* KeWaitForSingleObject again on an empty ring, the signals of the
\* synchronization event used up.
C27_Witness ==
    /\ Len(received) = 2
    /\ Len(cli[ClosedFileObject].written) = 2
    /\ wrk[ClosedFileObject].pc = "waiting"
    /\ ~ReceiveRingNonEmpty(ClosedFileObject)
    /\ ~event[<<ClosedFileObject, "Receive">>].Signaled
    /\ event[<<ClosedFileObject, "Receive">>].Auto


(***************************************************************************)
(* The end of the receive worker.                                          *)
(***************************************************************************)
\* The worker of file object f takes a step.
WorkerSteps(f) == wrk'[f] # wrk[f]

\* C28: whatever made the receive worker leave its loop (lines 339, 344,
\* 385, 389, 394, 398, 413), its next step stores MAXULONG in Head of the
\* receive ring while it holds the Transition Lock (line 451), the step
\* after that releases the lock and ends the thread (line 452) without
\* a change of the ring, and the worker takes no step after that.
C28_ExitStoresSentinelThenReleases ==
    [][\A f \in FileObjects :
         LET r == wrk[f].Ring
         IN  /\ (wrk[f].pc = "exit" /\ WorkerSteps(f)) =>
                   /\ wrk'[f].pc = "exit_release"
                   /\ wrk'[f].Ring = r
                   /\ ring' = [ring EXCEPT ![r].Head = MAXULONG]
                   /\ wrk[f].holds = 1 /\ TransitionLock.Shared > 0
                   /\ TransitionLock' = TransitionLock
             /\ (wrk[f].pc = "exit_release" /\ WorkerSteps(f)) =>
                   /\ wrk'[f].pc = "exited"
                   /\ ring[r].Head = MAXULONG
                   /\ ring' = ring
                   /\ TransitionLock'.Shared = TransitionLock.Shared - 1
             /\ (wrk'[f].pc = "exited" /\ WorkerSteps(f)) =>
                   wrk[f].pc = "exit_release"
             /\ wrk[f].pc = "exited" => ~WorkerSteps(f)]_vars

\* The worker has ended after it had dealt with a packet, the sentinel is
\* in Head and no shared holder is left.
C28_Witness ==
    /\ wrk[ClosedFileObject].pc = "exited"
    /\ Len(received) > 0
    /\ ring[<<ClosedFileObject, "Receive">>].Head = MAXULONG
    /\ TransitionLock.Shared = 0
    /\ ~crashed


(***************************************************************************)
(* The packet at Head of the receive ring.                                 *)
(***************************************************************************)
\* The length header at the Head the worker w has read, as the client
\* stored it, and the high nibble of the byte after it.
HeaderAtHead(w) ==
    LET D == ring[w.Ring].Data
        a == Value(w.RingHead)
    IN  ReadByte(D, a) + 256 * ReadByte(D, a + 1) + 65536 * ReadByte(D, a + 2)
        + 65536 * 256 * ReadByte(D, a + 3)
\* The header is below 2^31.
HeaderAtHeadSmall(w) ==
    ReadByte(ring[w.Ring].Data, Value(w.RingHead) + 3) < 128
NibbleAtHead(w) ==
    ReadByte(ring[w.Ring].Data, Value(w.RingHead) + SIZEOF_TUN_PACKET) \div 16

\* The bytes between the Head and the Tail the worker w has read.
UsedSpace(w) ==
    (Value(w.RingTail) - Value(w.RingHead) + Value(w.RingCapacity))
        % Value(w.RingCapacity)
FootprintOf(n) == ((SIZEOF_TUN_PACKET + n + TUN_ALIGNMENT - 1) \div TUN_ALIGNMENT)
                      * TUN_ALIGNMENT

\* The packet at Head passes lines 384-398: Tail is in range, a header
\* fits in the used space, the length is an IP packet's and its footprint
\* fits in the used space.
WholePacketAtHead(w) ==
    /\ Less32(w.RingTail, w.RingCapacity)
    /\ UsedSpace(w) >= SIZEOF_TUN_PACKET
    /\ HeaderAtHeadSmall(w)
    /\ HeaderAtHead(w) <= TUN_MAX_IP_PACKET_SIZE
    /\ FootprintOf(HeaderAtHead(w)) <= UsedSpace(w)

\* C29: of the packets that pass the checks of lines 384-398, the worker
\* tags IPv4 exactly those of at least 20 bytes whose first byte has the
\* high nibble 4 and IPv6 exactly those of at least 40 bytes with the
\* nibble 6; at any other packet it leaves the loop, and from then on it
\* delivers nothing and stores no Head but MAXULONG.
C29_TagsByLengthAndNibble ==
    [][\A f \in FileObjects :
         LET w == wrk[f]
             IsIpv4 == HeaderAtHead(w) >= 20 /\ NibbleAtHead(w) = 4
             IsIpv6 == HeaderAtHead(w) >= 40 /\ NibbleAtHead(w) = 6
         IN  /\ (w.pc = "check" /\ WorkerSteps(f) /\ WholePacketAtHead(w)) =>
                   /\ IsIpv4 <=> /\ wrk'[f].pc = "deliver"
                                 /\ wrk'[f].NblFlags = "NDIS_NBL_FLAGS_IS_IPV4"
                   /\ IsIpv6 <=> /\ wrk'[f].pc = "deliver"
                                 /\ wrk'[f].NblFlags = "NDIS_NBL_FLAGS_IS_IPV6"
                   /\ ~(IsIpv4 \/ IsIpv6) <=> wrk'[f].pc = "exit"
                   /\ wrk'[f].pc = "deliver" =>
                         Value(wrk'[f].PacketSize) = HeaderAtHead(w)
                   /\ received' = received /\ ring' = ring
             /\ (w.pc = "deliver" /\ WorkerSteps(f) /\ ~crashed') =>
                   /\ Len(received') = Len(received) + 1
                   /\ received'[Len(received')].flags = w.NblFlags
                   /\ received'[Len(received')].at = w.RingHead
             /\ (w.pc \in {"exit", "exit_release"} /\ WorkerSteps(f)) =>
                   /\ received' = received
                   /\ ring'[w.Ring].Head \in {ring[w.Ring].Head, MAXULONG}]_vars

\* An IPv4 packet has been dealt with and the worker has left the loop at
\* the packet after it, whose first byte has the nibble 6 and whose length
\* is 39.
C29_Witness ==
    LET w == wrk[ClosedFileObject]
    IN  /\ w.pc = "exit"
        /\ Len(received) = 1
        /\ received[1].flags = "NDIS_NBL_FLAGS_IS_IPV4"
        /\ WholePacketAtHead(w)
        /\ HeaderAtHead(w) = 39 /\ NibbleAtHead(w) = 6


\* The packet at Head is cut short: Tail is in range and differs from
\* Head, and the used space is less than a header (line 388), or the
\* length header is more than TUN_MAX_IP_PACKET_SIZE (line 393), or the
\* footprint is more than the used space (line 397).
BrokenPacketAtHead(w) ==
    /\ Less32(w.RingTail, w.RingCapacity)
    /\ w.RingTail # w.RingHead
    /\ \/ UsedSpace(w) < SIZEOF_TUN_PACKET
       \/ ~HeaderAtHeadSmall(w)
       \/ HeaderAtHead(w) > TUN_MAX_IP_PACKET_SIZE
       \/ FootprintOf(HeaderAtHead(w)) > UsedSpace(w)

\* C30: at a packet that is cut short the worker leaves the loop without
\* a delivery or a store to the ring, and its next step stores MAXULONG in
\* Head; every packet it delivers or discards has the length of the
\* header at Head and lies, header and data, in the used space between
\* Head and Tail.
C30_BrokenPacketStopsWorker ==
    [][\A f \in FileObjects :
         LET w == wrk[f]
         IN  /\ (w.pc = "check" /\ WorkerSteps(f) /\ BrokenPacketAtHead(w)) =>
                   /\ wrk'[f].pc = "exit"
                   /\ received' = received
                   /\ Statistics' = Statistics
                   /\ ring' = ring
             /\ (w.pc = "exit" /\ WorkerSteps(f)) =>
                   /\ ring'[w.Ring].Head = MAXULONG
                   /\ received' = received
             /\ (w.pc = "deliver" /\ WorkerSteps(f)) =>
                   /\ Less32(w.RingTail, w.RingCapacity)
                   /\ Value(w.PacketSize) = HeaderAtHead(w)
                   /\ SIZEOF_TUN_PACKET + Value(w.PacketSize) <= UsedSpace(w)
                   /\ Value(w.AlignedPacketSize) <= UsedSpace(w)]_vars

\* The worker has dealt with a packet and has left the loop at the next
\* one, whose footprint is more than the used space.
C30_Witness ==
    LET w == wrk[ClosedFileObject]
    IN  /\ w.pc = "exit"
        /\ Len(received) = 1
        /\ Less32(w.RingTail, w.RingCapacity)
        /\ UsedSpace(w) >= SIZEOF_TUN_PACKET
        /\ HeaderAtHeadSmall(w)
        /\ HeaderAtHead(w) <= TUN_MAX_IP_PACKET_SIZE
        /\ FootprintOf(HeaderAtHead(w)) > UsedSpace(w)


(***************************************************************************)
(* Packets the worker cannot deliver.                                      *)
(***************************************************************************)
\* PRESENT or RUNNING is clear in the flags the worker w has read.
FlagsForbidIndication(w) ==
    TUN_FLAGS_PRESENT \notin w.Flags \/ TUN_FLAGS_RUNNING \notin w.Flags

\* C31: a packet that passed the checks is not indicated when PRESENT or
\* RUNNING is clear in the worker's flags; whenever a packet is not
\* indicated (for that or for want of an NBL) ifInDiscards grows by one
\* and no other counter changes; and after either outcome the worker
\* stores Head + footprint, wrapped, and goes back to the top of the loop.
C31_UndeliverableIsDiscarded ==
    [][\A f \in FileObjects :
         LET w == wrk[f]
         IN  /\ (w.pc = "deliver" /\ WorkerSteps(f) /\ ~crashed') =>
                   LET last == received'[Len(received')]
                   IN  /\ Len(received') = Len(received) + 1
                       /\ FlagsForbidIndication(w) => ~last.indicated
                       /\ ~last.indicated =>
                             Statistics' = [Statistics EXCEPT
                                               !.ifInDiscards = @ + 1]
                       /\ last.indicated =>
                             Statistics'.ifInDiscards = Statistics.ifInDiscards
                       /\ wrk'[f].pc = "advance"
                       /\ ring' = ring
             /\ (w.pc = "advance" /\ WorkerSteps(f)) =>
                   /\ Value(ring'[w.Ring].Head) =
                         (Value(w.RingHead) + FootprintOf(Value(w.PacketSize)))
                            % Value(w.RingCapacity)
                   /\ wrk'[f].pc = "top"
                   /\ Statistics' = Statistics]_vars

\* The worker has discarded a packet because RUNNING was clear in its
\* flags, has moved Head past it and is back at the top of the loop.
C31_Witness ==
    LET w == wrk[ClosedFileObject]
    IN  /\ w.pc = "top"
        /\ TUN_FLAGS_RUNNING \notin w.Flags
        /\ Len(received) = 1 /\ ~received[1].indicated
        /\ Statistics.ifInDiscards = 1
        /\ Statistics.ifHCInUcastPkts = 0 /\ Statistics.ifHCInOctets = 0
        /\ ring[<<ClosedFileObject, "Receive">>].Head # ULong(0)


(***************************************************************************)
(* The send path on a ring whose Head or Tail is out of range.             *)
(***************************************************************************)
\* The caller s takes a step.
SenderSteps(s) == snd'[s] # snd[s]

\* The offset is at or above the capacity.
OutOfRange(Offset, RingCapacity) ==
    Offset[1] > RingCapacity[1]
    \/ (Offset[1] = RingCapacity[1] /\ Offset[2] >= RingCapacity[2])

\* C32: when the Head (line 265) or the Tail (line 269) the send path
\* reads is at or above the capacity, the packet goes to
\* cleanupReleaseSpinLock with NDIS_STATUS_ADAPTER_NOT_READY while the
\* ring spinlock is held; that step and the next leave the ring and the
\* events as they are, and the next releases the spinlock, counts the
\* packet as discarded and gives its NBL that status.
C32_BrokenSendRingRejects ==
    [][\A s \in Senders :
         LET sr == snd[s]
             NotReady ==
                 /\ snd'[s].pc = "cleanupReleaseSpinLock"
                 /\ snd'[s].Status = "NDIS_STATUS_ADAPTER_NOT_READY"
                 /\ SendLock = s /\ SendLock' = s
                 /\ ring' = ring /\ event' = event /\ sendlog' = sendlog
         IN  /\ (/\ sr.pc = "head" /\ SenderSteps(s)
                 /\ OutOfRange(ring[sr.Ring].Head, Device.Send.Capacity))
                   => NotReady
             /\ (/\ sr.pc = "tail" /\ SenderSteps(s)
                 /\ OutOfRange(ring[sr.Ring].Tail, Device.Send.Capacity))
                   => NotReady
             /\ (sr.pc = "cleanupReleaseSpinLock" /\ SenderSteps(s)) =>
                   /\ SendLock = s /\ SendLock' = 0
                   /\ ring' = ring /\ event' = event /\ sendlog' = sendlog
                   /\ snd'[s].status[sr.i] = sr.Status
                   /\ snd'[s].DiscardedPacketsCount = sr.DiscardedPacketsCount + 1
                   /\ snd'[s].SentPacketsCount = sr.SentPacketsCount
                   /\ snd'[s].pc = "packet"]_vars

\* A packet has been rejected as not ready on a ring whose Tail is out of
\* range: the spinlock is free, nothing was written and no event is
\* signaled.
C32_Witness ==
    LET k == <<ClosedFileObject, "Send">>
        sr == snd[FirstSender]
    IN  /\ OutOfRange(ring[k].Tail, ClientCapacity)
        /\ ~OutOfRange(ring[k].Head, ClientCapacity)
        /\ sr.pc = "packet" /\ sr.DiscardedPacketsCount = 1
        /\ sr.status[1] = "NDIS_STATUS_ADAPTER_NOT_READY"
        /\ SendLock = 0
        /\ ring[k].Data = EmptyData
        /\ ~event[k].Signaled
        /\ sendlog = <<>>


(***************************************************************************)
(* The notification of the send ring's consumer.                           *)
(***************************************************************************)
\* C33: the step after the store of the new Tail (line 284) sets the send
\* ring's TailMoved (line 285), with the header and the data of the packet
\* in the ring at the Tail that was read and the new Tail stored; the step
\* after that counts the packet as sent (lines 287-289); and no other step
\* of the send path changes an event, so a rejected packet sets none.
C33_SignalOncePerAcceptedPacket ==
    [][\A s \in Senders :
         LET sr == snd[s]
             e == Device.Send.TailMoved
         IN  /\ (sr.pc = "store" /\ SenderSteps(s)) =>
                   /\ snd'[s].pc = "event"
                   /\ event' = event
             /\ (sr.pc = "event" /\ SenderSteps(s)) =>
                   /\ event' = [event EXCEPT ![e].Signaled = TRUE]
                   /\ snd'[s].pc = "unlock"
                   /\ ring' = ring
                   /\ LoadPacketSize(ring[sr.Ring].Data, sr.RingTail) = sr.PacketSize
                   /\ LoadPacketData(ring[sr.Ring].Data, sr.RingTail, sr.PacketSize)
                         = sr.batch[sr.i][sr.j].Data
                   /\ Value(ring[sr.Ring].Tail) =
                         (Value(sr.RingTail) + FootprintOf(Value(sr.PacketSize)))
                            % Value(sr.RingCapacity)
             /\ (sr.pc = "unlock" /\ SenderSteps(s)) =>
                   /\ snd'[s].SentPacketsCount = sr.SentPacketsCount + 1
                   /\ snd'[s].DiscardedPacketsCount = sr.DiscardedPacketsCount
                   /\ snd'[s].pc = "packet"
                   /\ event' = event
             /\ (snd'[s].pc = "unlock" /\ SenderSteps(s)) => sr.pc = "event"
             /\ (sr.pc # "event" /\ SenderSteps(s)) => event' = event]_vars

\* A packet has been written, the new Tail stored and TailMoved set; the
\* packet is not counted yet.
C33_Witness ==
    LET k == <<ClosedFileObject, "Send">>
        sr == snd[FirstSender]
    IN  /\ sr.pc = "unlock"
        /\ event[k].Signaled
        /\ Len(sendlog) = 1
        /\ ring[k].Tail # sr.RingTail
        /\ sr.SentPacketsCount = 0


(***************************************************************************)
(* The rings while CONNECTED is set.                                       *)
(***************************************************************************)
\* The ring of direction dir in the context is established: its capacity
\* has passed the checks of lines 492-495 or 524-527, its event is
\* referenced, its MDL is locked and its memory is mapped.
RingEstablished(dir) ==
    LET d == Device[dir]
    IN  /\ LessEq32(ULong(TUN_MIN_RING_CAPACITY), d.Capacity)
        /\ LessEq32(d.Capacity, ULong(TUN_MAX_RING_CAPACITY))
        /\ PopulationCount64(d.Capacity) = 1
        /\ d.TailMoved # NULL /\ event[d.TailMoved].Refs > 0
        /\ d.Mdl # NULL /\ mdl[d.Mdl] = "locked"
        /\ d.Ring # NULL /\ d.Ring = d.Mdl

\* A step releases an object the context names: an MDL is unlocked or
\* freed, or an event is dereferenced.
ReleasesOfContext ==
    \E dir \in {"Send", "Receive"} :
       LET d == Device[dir]
       IN  \/ d.Mdl # NULL /\ mdl'[d.Mdl] # mdl[d.Mdl]
                /\ mdl'[d.Mdl] \in {"unlocked", "freed"}
           \/ d.TailMoved # NULL
                /\ event'[d.TailMoved].Refs < event[d.TailMoved].Refs

\* C34: while CONNECTED is set both rings of the context are established;
\* the step that sets CONNECTED (line 554) finds them so, and no step
\* releases an MDL or an event of the context while CONNECTED is set or a
\* holder of the Transition Lock is left from before it was cleared.
C34_ConnectedMeansEstablished ==
    /\ [](TUN_FLAGS_CONNECTED \in Flags =>
             RingEstablished("Send") /\ RingEstablished("Receive"))
    /\ [][(TUN_FLAGS_CONNECTED \in Flags' /\ TUN_FLAGS_CONNECTED \notin Flags) =>
             RingEstablished("Send") /\ RingEstablished("Receive")]_vars
    /\ [][ReleasesOfContext =>
             /\ TUN_FLAGS_CONNECTED \notin Flags
             /\ \A s \in Senders : TUN_FLAGS_CONNECTED \notin snd[s].Flags]_vars


(***************************************************************************)
(* The Heads and Tails the driver stores.                                  *)
(***************************************************************************)
\* C35: the Tail the send path stores (line 284) is below the capacity,
\* and a multiple of TUN_ALIGNMENT when the Tail it read was; the Head the
\* receive worker stores is MAXULONG when it stops (line 451) and
\* otherwise (line 448) below the capacity, and a multiple of
\* TUN_ALIGNMENT when the Head it read was; and a step that stores a Tail
\* at or above the capacity is the teardown's and stores MAXULONG (line
\* 613).
C35_StoredOffsetsAlignedInRange ==
    /\ [](/\ probe.kind = "written" =>
                /\ ~OutOfRange(probe.Tail, probe.Capacity)
                /\ probe.First % TUN_ALIGNMENT = 0 =>
                      Value(probe.Tail) % TUN_ALIGNMENT = 0
          /\ probe.kind = "read" =>
                /\ ~OutOfRange(probe.Head, probe.Capacity)
                /\ probe.First % TUN_ALIGNMENT = 0 =>
                      Value(probe.Head) % TUN_ALIGNMENT = 0
          /\ probe.kind = "stopped" => probe.Head = MAXULONG)
    /\ [][(probe'.Tail # probe.Tail /\ OutOfRange(probe'.Tail, probe.Capacity)) =>
             probe'.kind = "unregistered" /\ probe'.Tail = MAXULONG]_vars
    /\ [][(probe'.Head # probe.Head /\ OutOfRange(probe'.Head, probe.Capacity)) =>
             probe'.kind = "stopped" /\ probe'.Head = MAXULONG]_vars

\* A packet has been written at the last aligned offset of the ring: the
\* Tail stored has wrapped around to an aligned offset at the start.
C35_Witness ==
    /\ probe.kind = "written"
    /\ probe.First = Value(probe.Capacity) - TUN_ALIGNMENT
    /\ Value(probe.Tail) < probe.First
    /\ Value(probe.Tail) % TUN_ALIGNMENT = 0


(***************************************************************************)
(* The fields of the rings the driver writes.                              *)
(***************************************************************************)
\* A step of the driver, not of a client, changes the ring k.
DriverWrites(k) == ring'[k] # ring[k] /\ cli' = cli /\ consumed' = consumed

\* No caller of the send path is between its reading of CONNECTED (line
\* 243) and the end of its batch.
SendersDrained == \A s \in Senders : TUN_FLAGS_CONNECTED \notin snd[s].Flags

\* C36: a step of the driver that changes a send ring leaves its Head and
\* Alertable alone, and changes Tail either at line 284, by the caller
\* that holds the send spinlock, or at line 613, by the teardown when no
\* caller that saw CONNECTED is left; a step of the driver that changes a
\* receive ring leaves its Tail and data alone and is a step of a receive
\* worker.
C36_SingleWriter ==
    [][\A k \in Rings :
         DriverWrites(k) =>
            IF k[2] = "Send"
            THEN /\ ring'[k].Head = ring[k].Head
                 /\ ring'[k].Alertable = ring[k].Alertable
                 /\ ring'[k].Tail # ring[k].Tail =>
                       \/ \E s \in Senders :
                            /\ SendLock = s /\ snd[s].pc = "store"
                            /\ SenderSteps(s) /\ snd[s].Ring = k
                       \/ /\ \E f \in FileObjects :
                               ctl[f].pc = "UnregSendTail" /\ ctl'[f] # ctl[f]
                          /\ SendersDrained
                          /\ ring'[k].Tail = MAXULONG
            ELSE /\ ring'[k].Tail = ring[k].Tail
                 /\ ring'[k].Data = ring[k].Data
                 /\ \E f \in FileObjects : WorkerSteps(f) /\ wrk[f].Ring = k]_vars


(***************************************************************************)
(* The send ring after a packet was accepted.                              *)
(***************************************************************************)
\* C37: after the send path has written a packet (lines 273-284), the
\* Tail it has stored differs from the Head it had read, and from the
\* Tail it had read: the ring holds the packet and does not look empty.
C37_AcceptedPacketLeavesRingNonEmpty ==
    probe.kind = "written" =>
        /\ probe.Tail # probe.Head
        /\ Value(probe.Tail) # probe.First
        /\ (Value(probe.Head) - Value(probe.Tail) + Value(probe.Capacity))
              % Value(probe.Capacity) >= 1

\* A packet has been written into a ring that held packets, and the Tail
\* stored has wrapped around to an offset below the Head.
C37_Witness ==
    /\ probe.kind = "written"
    /\ probe.First # Value(probe.Head)
    /\ Value(probe.Tail) < probe.First
    /\ Value(probe.Tail) < Value(probe.Head)


\* C38: while a receive worker is running, the publication barrier of
\* TunPause (lines 716-729) and that of TunDispatchPnP (lines 690-693)
\* complete: once the flag is cleared and the exclusive acquisition is
\* asked for, the call returns, whatever the client writes to the ring.
C38_BarrierCompletes ==
    /\ (pause.pc \in {"PauseBarrier", "PauseBarrierWait"}) ~> (pause.pc = "paused")
    /\ (pnp.pc \in {"RemoveBarrier", "RemoveBarrierWait"}) ~> (pnp.pc = "removed")

=============================================================================
